---- MODULE Spec2Model ----
(***************************************************************************)
(* Model of the wikibase-bulk-kit mapping pipeline: the update strategies  *)
(* of wbk/mapping/pipeline/update_strategies.py, the claim builder, the    *)
(* resolution context, the legacy mapping processor's dispatch and the     *)
(* label / label+snak searches of the RaiseWikibase backend.               *)
(***************************************************************************)
EXTENDS Integers, Sequences, FiniteSets, TLC

\* ------------------------------------------------------------------------
\* Bounds of the model
\* ------------------------------------------------------------------------
MaxRows == 2

\* ------------------------------------------------------------------------
\* Generic helpers for Python dicts (functions with a variable key set)
\* ------------------------------------------------------------------------
None == "None"

EmptyMap == [k \in {} |-> <<>>]

Put(m, k, v) == [x \in (DOMAIN m) \cup {k} |-> IF x = k THEN v ELSE m[x]]

GetOr(m, k, d) == IF k \in DOMAIN m THEN m[k] ELSE d

Range(s) == {s[i] : i \in DOMAIN s}

\* ------------------------------------------------------------------------
\* Entity documents, claims and snaks
\* ------------------------------------------------------------------------
Snak(p, v) == [property |-> p, value |-> v]

IsSameSnak(a, b) == a.property = b.property /\ a.value = b.value

RECURSIVE OrderOf(_)
OrderOf(snaks) ==
    IF snaks = <<>> THEN <<>>
    ELSE LET rest == OrderOf(Tail(snaks))
             p == Head(snaks).property
         IN <<p>> \o SelectSeq(rest, LAMBDA q : q # p)

GroupSnaks(snaks) ==
    [p \in {snaks[i].property : i \in DOMAIN snaks} |->
        SelectSeq(snaks, LAMBDA s : s.property = p)]

RefBlock(snaks) == [snaks |-> GroupSnaks(snaks), order |-> OrderOf(snaks)]

Claim(mainsnak, qualifiers, references) ==
    [mainsnak   |-> mainsnak,
     hasQ       |-> TRUE,
     qualifiers |-> GroupSnaks(qualifiers),
     qorder     |-> OrderOf(qualifiers),
     hasRefs    |-> TRUE,
     references |-> IF references = <<>> THEN <<>> ELSE <<RefBlock(references)>>,
     id         |-> "",
     rank       |-> "normal"]

Entity(id, label, description, claims) ==
    [id |-> id, label |-> label, description |-> description, claims |-> claims]

\* ------------------------------------------------------------------------
\* The store: properties by label, entity documents by id
\* ------------------------------------------------------------------------
NoPid == ""

PropertyLabels == {"L1", "L2", "Lq1", "Lq2", "Lr", "Lx"}

\* DBConnection.find_property_info: (id, datatype) of a property label;
\* the label "Lx" names no property.
FindPropertyInfo(lbl) ==
    CASE lbl = "L1"  -> [id |-> "P1",  datatype |-> "string"]
      [] lbl = "L2"  -> [id |-> "P2",  datatype |-> "string"]
      [] lbl = "Lq1" -> [id |-> "Pq1", datatype |-> "string"]
      [] lbl = "Lq2" -> [id |-> "Pq2", datatype |-> "string"]
      [] lbl = "Lr"  -> [id |-> "Pr",  datatype |-> "string"]
      [] OTHER       -> [id |-> NoPid, datatype |-> None]

\* A stored claim; the store keeps "qualifiers"/"references" only when the
\* claim has some (hasQ / hasRefs say whether the key is in the dict).
StoredClaim(p, v, quals, refs, id) ==
    [mainsnak   |-> Snak(p, v),
     hasQ       |-> quals # <<>>,
     qualifiers |-> GroupSnaks(quals),
     qorder     |-> OrderOf(quals),
     hasRefs    |-> refs # <<>>,
     references |-> refs,
     id         |-> id,
     rank       |-> "normal"]

\* ------------------------------------------------------------------------
\* Mapping rules, statements and rows
\* ------------------------------------------------------------------------
\* A value spec is a column name (the bare string or {column: c} form), None
\* (no value given) or Blank, the composite [{column: c}, {value: " "}] whose
\* second part is the blank placeholder.
Blank == "blank"

Values == {"v1", "v2"}

ClaimMapping(prop, val) == [property |-> prop, value |-> val]

Statement(prop, val, quals, refs, rank) ==
    [property |-> prop, value |-> val, qualifiers |-> quals,
     references |-> refs, rank |-> rank]

NoSnak == [property |-> None, value |-> None]

MappingRule(stmts, snk) == [statements |-> stmts, snak |-> snk]

\* ------------------------------------------------------------------------
\* MappingContext: property cache and point lookups
\* ------------------------------------------------------------------------
\* get_property_info on a cache `cache` (label -> info): the cached entry, or
\* the store's answer on a miss.
PropertyInfoOf(cache, lbl) ==
    IF lbl \in DOMAIN cache THEN cache[lbl] ELSE FindPropertyInfo(lbl)

\* the cache after get_property_info(lbl): a miss that resolves is cached
CacheAfterLookup(cache, lbl) ==
    IF lbl \notin DOMAIN cache /\ FindPropertyInfo(lbl).id # NoPid /\ lbl # ""
    THEN Put(cache, lbl, FindPropertyInfo(lbl))
    ELSE cache

RECURSIVE CacheAfterLookups(_, _)
CacheAfterLookups(cache, lbls) ==
    IF lbls = <<>> THEN cache
    ELSE CacheAfterLookups(CacheAfterLookup(cache, Head(lbls)), Tail(lbls))

\* ------------------------------------------------------------------------
\* ValueResolver.resolve, for the value specs of the rules below
\* ------------------------------------------------------------------------
ResolveValue(spec, row) ==
    IF spec = None THEN [kind |-> "ValueError", value |-> None]
    ELSE IF spec = Blank THEN [kind |-> "tuple", value |-> " "]
    ELSE IF spec \in DOMAIN row.cells THEN [kind |-> "ok", value |-> row.cells[spec]]
    ELSE [kind |-> "KeyError", value |-> None]

\* ------------------------------------------------------------------------
\* ClaimBuilder
\* ------------------------------------------------------------------------
\* _create_snak: the snak of a qualifier/reference mapping, or a raise
\* (unknown property, or any failure of the value resolution).
SnakRaises(cache, cm, row) ==
    \/ PropertyInfoOf(cache, cm.property).id = NoPid
    \/ ResolveValue(cm.value, row).kind \in {"ValueError", "KeyError"}

CreateSnak(cache, cm, row) ==
    Snak(PropertyInfoOf(cache, cm.property).id, ResolveValue(cm.value, row).value)

\* index of the first mapping of cms whose snak raises, 0 if none
FirstRaise(cache, cms, row) ==
    IF \E i \in DOMAIN cms : SnakRaises(cache, cms[i], row)
    THEN CHOOSE i \in DOMAIN cms :
            /\ SnakRaises(cache, cms[i], row)
            /\ \A j \in 1..(i-1) : ~SnakRaises(cache, cms[j], row)
    ELSE 0

\* build_claim: status "ok" with the claim, "none" (the statement is skipped)
\* or "raise"; looked is the list of property labels looked up on the way.
BuildClaim(cache, stmt, row) ==
    LET info == PropertyInfoOf(cache, stmt.property)
        val  == ResolveValue(stmt.value, row)
        qs   == stmt.qualifiers
        rs   == stmt.references
        fq   == FirstRaise(cache, qs, row)
        fr   == FirstRaise(cache, rs, row)
        qlab == [i \in DOMAIN qs |-> qs[i].property]
        rlab == [i \in DOMAIN rs |-> rs[i].property]
        none == [mainsnak |-> Snak(NoPid, None)]
    IN  IF info.id = NoPid
          THEN [status |-> "raise", pid |-> NoPid, claim |-> none,
                looked |-> <<stmt.property>>]
        ELSE IF val.kind = "KeyError"
          THEN [status |-> "raise", pid |-> info.id, claim |-> none,
                looked |-> <<stmt.property>>]
        ELSE IF val.kind = "ValueError" \/ val.kind = "tuple"
          THEN [status |-> "none", pid |-> info.id, claim |-> none,
                looked |-> <<stmt.property>>]
        ELSE IF fq # 0
          THEN [status |-> "raise", pid |-> info.id, claim |-> none,
                looked |-> <<stmt.property>> \o SubSeq(qlab, 1, fq)]
        ELSE IF fr # 0
          THEN [status |-> "raise", pid |-> info.id, claim |-> none,
                looked |-> <<stmt.property>> \o qlab \o SubSeq(rlab, 1, fr)]
        ELSE [status |-> "ok", pid |-> info.id,
              claim |->
                LET c == Claim(Snak(info.id, val.value),
                               [i \in DOMAIN qs |-> CreateSnak(cache, qs[i], row)],
                               [i \in DOMAIN rs |-> CreateSnak(cache, rs[i], row)])
                IN IF stmt.rank # None /\ stmt.rank # "normal"
                   THEN [c EXCEPT !.rank = stmt.rank] ELSE c,
              looked |-> <<stmt.property>> \o qlab \o rlab]

\* ------------------------------------------------------------------------
\* Claim comparison primitives
\* ------------------------------------------------------------------------
\* RaiseWikibase.utils.is_same_claim: equal mainsnak and equal qualifiers;
\* the claim id, rank and references are not compared.
is_same_claim(c1, c2) ==
    /\ IsSameSnak(c1.mainsnak, c2.mainsnak)
    /\ c1.qualifiers = c2.qualifiers

mainsnak_values_equal(claim1, claim2) ==
    claim1.mainsnak.value = claim2.mainsnak.value

\* two snak lists zip to pairwise equal snaks and have the same length
SameSnakLists(l1, l2) ==
    /\ Len(l1) = Len(l2)
    /\ \A i \in DOMAIN l1 : IsSameSnak(l1[i], l2[i])

\* variant: the first claim's qualifier properties need only be among the
\* second claim's
qualifiers_equal_subset(claim1, claim2) ==
    /\ Range(claim1.qorder) \subseteq Range(claim2.qorder)
    /\ \A prop \in Range(claim1.qorder) :
          SameSnakLists(GetOr(claim1.qualifiers, prop, <<>>),
                        GetOr(claim2.qualifiers, prop, <<>>))

qualifiers_equal(claim1, claim2) ==
    /\ Range(claim1.qorder) = Range(claim2.qorder)
    /\ \A prop \in Range(claim1.qorder) :
          SameSnakLists(GetOr(claim1.qualifiers, prop, <<>>),
                        GetOr(claim2.qualifiers, prop, <<>>))

\* the inner loop of _ref_present / _merge_references: one new reference
\* block against one existing block
RefBlockMatches(new_ref, existing_ref) ==
    /\ Range(new_ref.order) = Range(existing_ref.order)
    /\ \A prop \in Range(new_ref.order) :
          SameSnakLists(GetOr(new_ref.snaks, prop, <<>>),
                        GetOr(existing_ref.snaks, prop, <<>>))

ref_present(new_claim, existing_claim) ==
    \/ new_claim.references = <<>>
    \/ \E i \in DOMAIN new_claim.references :
         \E j \in DOMAIN existing_claim.references :
            RefBlockMatches(new_claim.references[i], existing_claim.references[j])

\* variant: the new blocks take the place of the existing ones
MergeRefLists_replace(existing_refs, new_refs) == new_refs

\* the loop of _merge_references over the new blocks, on the list existing_refs
RECURSIVE MergeRefLists(_, _)
MergeRefLists(existing_refs, new_refs) ==
    IF new_refs = <<>> THEN existing_refs
    ELSE LET new_ref == Head(new_refs)
             ref_exists == \E j \in DOMAIN existing_refs :
                              RefBlockMatches(new_ref, existing_refs[j])
         IN MergeRefLists(IF ref_exists THEN existing_refs
                          ELSE Append(existing_refs, new_ref),
                          Tail(new_refs))

\* MergeRefsOrAppendStrategy._merge_references: existing_refs is
\* existing_claim.get("references", []), a list of its own when the claim has
\* no "references" key, so that the appended blocks are not kept.
MR_merge_references(existing_claim, new_claim) ==
    IF new_claim.references = <<>> THEN existing_claim
    ELSE IF existing_claim.hasRefs
         THEN [existing_claim EXCEPT
                 !.references = MergeRefLists(@, new_claim.references)]
         ELSE existing_claim

\* MergeQualifiersStrategy._merge_references: setdefault("references", [])
MQ_merge_references(existing_claim, new_claim) ==
    [existing_claim EXCEPT
        !.hasRefs = TRUE,
        !.references = MergeRefLists(@, new_claim.references)]

\* variant: every new qualifier snak is appended, present or not
AddMissingSnaks_noCheck(existing_prop_qualifiers, new_prop_qualifiers) ==
    existing_prop_qualifiers \o new_prop_qualifiers

\* the loop "for new_qual in new_prop_qualifiers" of _merge_qualifiers
RECURSIVE AddMissingSnaks(_, _)
AddMissingSnaks(existing_prop_qualifiers, new_prop_qualifiers) ==
    IF new_prop_qualifiers = <<>> THEN existing_prop_qualifiers
    ELSE LET new_qual == Head(new_prop_qualifiers)
             exists == \E i \in DOMAIN existing_prop_qualifiers :
                          IsSameSnak(new_qual, existing_prop_qualifiers[i])
         IN AddMissingSnaks(IF exists THEN existing_prop_qualifiers
                            ELSE Append(existing_prop_qualifiers, new_qual),
                            Tail(new_prop_qualifiers))

\* the loop "for prop in new_order" of _merge_qualifiers
RECURSIVE MergeQualifierProps(_, _, _)
MergeQualifierProps(existing_claim, new_claim, new_order) ==
    IF new_order = <<>> THEN existing_claim
    ELSE LET prop == Head(new_order)
             new_prop_qualifiers == GetOr(new_claim.qualifiers, prop, <<>>)
             merged == AddMissingSnaks(GetOr(existing_claim.qualifiers, prop, <<>>),
                                       new_prop_qualifiers)
             next == IF new_prop_qualifiers = <<>> THEN existing_claim
                     ELSE [existing_claim EXCEPT
                             !.qualifiers = Put(@, prop, merged),
                             !.qorder = IF prop \in Range(@) THEN @
                                        ELSE Append(@, prop)]
         IN MergeQualifierProps(next, new_claim, Tail(new_order))

\* variant: the new claim's qualifiers take the place of the existing ones
merge_qualifiers_overwrite(existing_claim, new_claim) ==
    IF new_claim.qualifiers = EmptyMap THEN existing_claim
    ELSE [existing_claim EXCEPT !.hasQ = TRUE,
                                !.qualifiers = new_claim.qualifiers,
                                !.qorder = new_claim.qorder]

\* variant: a qualifier property new to the existing claim is not entered
\* in its qualifiers-order
merge_qualifiers_noOrder(existing_claim, new_claim) ==
    IF new_claim.qualifiers = EmptyMap THEN existing_claim
    ELSE [MergeQualifierProps([existing_claim EXCEPT !.hasQ = TRUE],
                              new_claim, new_claim.qorder)
             EXCEPT !.qorder = existing_claim.qorder]

merge_qualifiers(existing_claim, new_claim) ==
    IF new_claim.qualifiers = EmptyMap THEN existing_claim
    ELSE MergeQualifierProps([existing_claim EXCEPT !.hasQ = TRUE],
                             new_claim, new_claim.qorder)

\* ------------------------------------------------------------------------
\* Update strategies: what one built claim does to the claims dict
\* ------------------------------------------------------------------------
\* index of the first TRUE entry of matches (one flag per existing claim, in
\* list order), 0 if there is none: the enumerate loop that breaks on a match
FirstMatch(matches) ==
    IF \E i \in DOMAIN matches : matches[i]
    THEN CHOOSE i \in DOMAIN matches :
            /\ matches[i]
            /\ \A j \in 1..(i-1) : ~matches[j]
    ELSE 0

\* variant: the built claim is appended to the property's list
ApplyStatementClaim_append(claims, pid, new_claim) ==
    Put(claims, pid, Append(GetOr(claims, pid, <<>>), new_claim))

\* ClaimBuilder.apply_statements: item["claims"].update(claim_dict)
ApplyStatementClaim(claims, pid, new_claim) == Put(claims, pid, <<new_claim>>)

\* variant: the replacing claim does not take over the replaced claim's id
AppendOrReplaceClaim_dropId(claims, pid, new_claim) ==
    IF pid \in DOMAIN claims
    THEN LET existing_claims == claims[pid]
             idx == FirstMatch([i \in DOMAIN existing_claims |->
                                 is_same_claim(new_claim, existing_claims[i])])
         IN IF idx # 0
            THEN Put(claims, pid, [existing_claims EXCEPT ![idx] = new_claim])
            ELSE Put(claims, pid, Append(existing_claims, new_claim))
    ELSE Put(claims, pid, <<new_claim>>)

AppendOrReplaceClaim(claims, pid, new_claim) ==
    IF pid \in DOMAIN claims
    THEN LET existing_claims == claims[pid]
             idx == FirstMatch([i \in DOMAIN existing_claims |->
                                 is_same_claim(new_claim, existing_claims[i])])
         IN IF idx # 0
            THEN Put(claims, pid,
                     [existing_claims EXCEPT ![idx] =
                        IF existing_claims[idx].id # ""
                        THEN [new_claim EXCEPT !.id = existing_claims[idx].id]
                        ELSE new_claim])
            ELSE Put(claims, pid, Append(existing_claims, new_claim))
    ELSE Put(claims, pid, <<new_claim>>)

\* variant: a claim already in the list is not appended again
ForceAppendClaim_dedup(claims, pid, new_claim) ==
    IF \E i \in DOMAIN GetOr(claims, pid, <<>>) : claims[pid][i] = new_claim
    THEN claims
    ELSE Put(claims, pid, Append(GetOr(claims, pid, <<>>), new_claim))

ForceAppendClaim(claims, pid, new_claim) ==
    Put(claims, pid, Append(GetOr(claims, pid, <<>>), new_claim))

MergeRefsMatch(new_claim, existing_claim) ==
    /\ mainsnak_values_equal(new_claim, existing_claim)
    /\ qualifiers_equal(new_claim, existing_claim)

MergeRefsOrAppendClaim(claims, pid, new_claim) ==
    IF pid \in DOMAIN claims
    THEN LET existing_claims == claims[pid]
             idx == FirstMatch([i \in DOMAIN existing_claims |->
                                 MergeRefsMatch(new_claim, existing_claims[i])])
         IN IF idx # 0
            THEN IF ~ref_present(new_claim, existing_claims[idx])
                 THEN Put(claims, pid,
                          [existing_claims EXCEPT ![idx] =
                             MR_merge_references(@, new_claim)])
                 ELSE claims
            ELSE Put(claims, pid, Append(existing_claims, new_claim))
    ELSE Put(claims, pid, <<new_claim>>)

MergeQualifiersClaim(claims, pid, new_claim) ==
    IF pid \in DOMAIN claims
    THEN LET existing_claims == claims[pid]
             idx == FirstMatch([i \in DOMAIN existing_claims |->
                                 mainsnak_values_equal(new_claim, existing_claims[i])])
         IN IF idx # 0
            THEN LET merged == merge_qualifiers(existing_claims[idx], new_claim)
                 IN Put(claims, pid,
                        [existing_claims EXCEPT ![idx] =
                           IF ~ref_present(new_claim, merged)
                           THEN MQ_merge_references(merged, new_claim)
                           ELSE merged])
            ELSE Put(claims, pid, Append(existing_claims, new_claim))
    ELSE Put(claims, pid, <<new_claim>>)

Strategies == {"replace_all", "append_or_replace", "force_append", "keep",
               "merge_refs_or_append", "merge_qualifiers_or_append"}

\* the claim-level policy of each strategy but Keep
StrategyClaim(strat, claims, pid, new_claim) ==
    CASE strat = "replace_all"                -> ApplyStatementClaim(claims, pid, new_claim)
      [] strat = "append_or_replace"          -> AppendOrReplaceClaim(claims, pid, new_claim)
      [] strat = "force_append"               -> ForceAppendClaim(claims, pid, new_claim)
      [] strat = "merge_refs_or_append"       -> MergeRefsOrAppendClaim(claims, pid, new_claim)
      [] strat = "merge_qualifiers_or_append" -> MergeQualifiersClaim(claims, pid, new_claim)

\* One record per statement that reached the claims dict while a row was
\* processed: the built claim, the property's list before and after.
Op(kind, pid, new_claim, claims, after) ==
    [kind |-> kind, pid |-> pid, new |-> new_claim,
     had |-> pid \in DOMAIN claims,
     before |-> GetOr(claims, pid, <<>>),
     after |-> GetOr(after, pid, <<>>)]

\* the body of "for statement in statements" of the strategies that build the
\* claim first; acc carries the item's claims, the property cache, the
\* outcome so far and the statements applied
BuildAndApply(strat, acc, stmt, row) ==
    LET b == BuildClaim(acc.cache, stmt, row)
        cache1 == CacheAfterLookups(acc.cache, b.looked)
    IN  IF b.status = "raise"
          THEN [acc EXCEPT !.status = "raise", !.cache = cache1]
        ELSE IF b.status = "none"
          THEN [acc EXCEPT !.cache = cache1]
        ELSE LET after == StrategyClaim(strat, acc.claims, b.pid, b.claim)
             IN [acc EXCEPT !.cache = cache1,
                            !.claims = after,
                            !.ops = Append(@, Op("apply", b.pid, b.claim, acc.claims, after))]

\* variant: Keep stores the built claim whatever the property already holds
KeepStatement_overwrite(acc, stmt, row) ==
    LET b == BuildAndApply("replace_all", acc, stmt, row)
    IN [b EXCEPT !.appended = acc.appended + (Len(b.ops) - Len(acc.ops))]

\* the body of "for statement in statements" of KeepStrategy.run
KeepStatement(acc, stmt, row) ==
    LET info == PropertyInfoOf(acc.cache, stmt.property)
        cache0 == CacheAfterLookup(acc.cache, stmt.property)
        b == BuildClaim(cache0, stmt, row)
        cache1 == CacheAfterLookups(cache0, b.looked)
    IN  IF info.id = NoPid
          THEN acc
        ELSE IF GetOr(acc.claims, info.id, <<>>) # <<>>
          THEN [acc EXCEPT !.cache = cache0,
                           !.kept = @ + 1,
                           !.ops = Append(@, Op("kept", info.id,
                                                [mainsnak |-> Snak(info.id, None)],
                                                acc.claims, acc.claims))]
        ELSE IF b.status = "raise"
          THEN [acc EXCEPT !.status = "raise", !.cache = cache1]
        ELSE IF b.status = "none"
          THEN [acc EXCEPT !.cache = cache1]
        ELSE LET after == Put(acc.claims, info.id, <<b.claim>>)
             IN [acc EXCEPT !.cache = cache1,
                            !.claims = after,
                            !.appended = @ + 1,
                            !.ops = Append(@, Op("apply", info.id, b.claim, acc.claims, after))]

RECURSIVE RunStatements(_, _, _, _)
RunStatements(strat, acc, stmts, row) ==
    IF stmts = <<>> \/ acc.status = "raise" THEN acc
    ELSE RunStatements(strat,
                       IF strat = "keep" THEN KeepStatement(acc, Head(stmts), row)
                       ELSE BuildAndApply(strat, acc, Head(stmts), row),
                       Tail(stmts), row)

\* UpdateStrategy._statements_with_snak
statements_with_snak(mapping_rule) ==
    IF mapping_rule.snak = NoSnak
       \/ \E i \in DOMAIN mapping_rule.statements :
             mapping_rule.statements[i].property = mapping_rule.snak.property
    THEN mapping_rule.statements
    ELSE Append(mapping_rule.statements,
                Statement(mapping_rule.snak.property, mapping_rule.snak.value,
                          <<>>, <<>>, None))

\* BatchMixin._set_labels_and_descriptions
set_labels_and_descriptions(item, row) ==
    [item EXCEPT
        !.label = IF row.new_label # None THEN row.new_label
                  ELSE IF row.label # None THEN row.label ELSE @,
        !.description = IF row.new_description # None THEN row.new_description
                        ELSE IF row.description # None THEN row.description ELSE @]

\* ------------------------------------------------------------------------
\* Inputs of a run: stored documents, mapping rules, rows
\* ------------------------------------------------------------------------
RefA == RefBlock(<<Snak("Pr", "v1")>>)

RefB == RefBlock(<<Snak("Pr", "v2")>>)

\* documents of Q1 in the store before the run
StoredDocs ==
    { Entity("Q1", "one", "d1", EmptyMap),
      Entity("Q1", "one", "d1",
             [p \in {"P1"} |-> <<StoredClaim("P1", "v1", <<>>, <<>>, "Q1$a")>>]),
      Entity("Q1", "one", "d1",
             [p \in {"P1"} |->
                <<StoredClaim("P1", "v1", <<Snak("Pq1", "v1")>>, <<RefA>>, "Q1$a"),
                  StoredClaim("P1", "v2", <<>>, <<>>, "Q1$b")>>]),
      Entity("Q1", "one", "d1",
             [p \in {"P1", "P2"} |->
                IF p = "P1" THEN <<>>
                ELSE <<StoredClaim("P2", "v1", <<>>, <<RefA, RefB>>, "Q1$c")>>]),
      Entity("Q1", "one", "d1",
             [p \in {"P1"} |->
                <<StoredClaim("P1", "v1", <<>>, <<>>, ""),
                  StoredClaim("P1", "v1", <<>>, <<RefB>>, "Q1$b")>>]) }

DocQ2 == Entity("Q2", "two", "d2",
                [p \in {"P2"} |-> <<StoredClaim("P2", "v2", <<>>, <<>>, "Q2$a")>>])

\* the document a row carries in __item (an entity the store does not hold)
RowItem == Entity("Q3", "three", "d3", EmptyMap)

S1(prop, val) == Statement(prop, val, <<>>, <<>>, None)

MappingRules ==
    { MappingRule(<<S1("L1", "a")>>, NoSnak),
      MappingRule(<<Statement("L1", "a", <<ClaimMapping("Lq1", "b")>>, <<>>, None)>>, NoSnak),
      MappingRule(<<Statement("L1", "a", <<ClaimMapping("Lq2", "b")>>, <<>>, "preferred")>>, NoSnak),
      MappingRule(<<Statement("L1", "a", <<>>, <<ClaimMapping("Lr", "b")>>, None)>>, NoSnak),
      MappingRule(<<S1("L1", "a"), S1("L2", "b")>>, NoSnak),
      MappingRule(<<S1("L1", "a"), S1("L1", "b")>>, NoSnak),
      MappingRule(<<S1("L1", "a"), S1("Lx", "b")>>, NoSnak),
      MappingRule(<<S1("L1", None), S1("L2", "a")>>, NoSnak),
      MappingRule(<<S1("L1", Blank), S1("L2", "a")>>, ClaimMapping("L2", "b")),
      MappingRule(<<>>, ClaimMapping("L1", "a")),
      MappingRule(<<S1("L2", "b")>>, ClaimMapping("L1", "a")) }

\* the columns the rule reads: the processor projects the rows on them
ColumnsOfMappings(cms) ==
    {cms[i].value : i \in DOMAIN cms} \ {None, Blank}

UsedColumns(mapping_rule) ==
    LET stmts == statements_with_snak(mapping_rule)
    IN UNION { ({stmts[i].value} \ {None, Blank})
               \cup ColumnsOfMappings(stmts[i].qualifiers)
               \cup ColumnsOfMappings(stmts[i].references) : i \in DOMAIN stmts }

Row(qid, hasItem, nl, l, nd, d, cells) ==
    [qid |-> qid, hasItem |-> hasItem, new_label |-> nl, label |-> l,
     new_description |-> nd, description |-> d, cells |-> cells]

NoRow == Row(None, FALSE, None, None, None, None, EmptyMap)

\* the rows a chunk of the rule can hold
Rows(mapping_rule) ==
    LET C == [UsedColumns(mapping_rule) -> Values]
        AllV1 == [c \in UsedColumns(mapping_rule) |-> "v1"]
        AllV2 == [c \in UsedColumns(mapping_rule) |-> "v2"]
    IN  {Row("Q1", FALSE, None, None, None, None, cells) : cells \in C}
        \cup {Row("Q2", FALSE, None, None, None, None, cells) : cells \in {AllV1, AllV2}}
        \cup {Row(None, FALSE, None, "x", None, None, AllV1),
              Row(None, TRUE, None, None, None, None, AllV1),
              Row("Q3", FALSE, None, None, None, None, AllV1),
              Row("Q1", FALSE, None, "uno", None, "du", AllV1),
              Row("Q1", FALSE, "eins", "uno", "de", "du", AllV2)}

\* ------------------------------------------------------------------------
\* State of a run of an update strategy
\* ------------------------------------------------------------------------
VARIABLES
    strategy,        \* the UpdateStrategy instance's class
    mapping_rule,    \* the rule of the run
    store,           \* entity documents of the store, by id
    pid_cache,       \* MappingContext.pid_cache
    working_items,   \* UpdateStrategy._working_items, by qid
    working_order,   \* insertion order of _working_items
    pc,              \* "idle", "rows" (in the loop over the rows), "done", "failed"
    nrows,           \* number of rows of the dataframe
    idx,             \* rows iterated so far
    batches,         \* the calls batch("wikibase-item", items, new) made
    kept_claims,     \* KeepStrategy.run's counters
    appended_claims,
    lastRow,         \* the row iterated last
    lastQid,         \* qid of the working item the last row went to, or None
    lastOps,         \* the statements the last row applied (see Op)
    contributed,     \* by qid, the (property, claim) pairs the rows of the run applied
    fetched,         \* by qid, the document _get_or_init_item copied for the run
    rows_log,        \* the rows iterated by all runs so far (see Logged)
    store0           \* the store before the first run

updVars == <<strategy, mapping_rule, store, pid_cache, working_items,
             working_order, pc, nrows, idx, batches, kept_claims,
             appended_claims, lastRow, lastQid, lastOps, contributed, fetched,
             rows_log, store0>>

\* MappingProcessor (processor.py)
VARIABLES
    current_dataframe,  \* MappingProcessor.current_dataframe, a sequence of rows
    csv_loaded,         \* process() has read a CSV file
    pids_by_labels,     \* MappingProcessor.pids_by_labels
    qids_by_labels,     \* MappingProcessor.qids_by_labels
    item_labels,        \* the labels that items of the store carry
    mappings_done,      \* item mappings processed so far
    last_mapping        \* what the last process_item_mapping call did (see MappingRecord)

procVars == <<current_dataframe, csv_loaded, pids_by_labels, qids_by_labels,
              item_labels, mappings_done, last_mapping>>

\* RaiseWikibaseBackend searches (raisewikibase.py) and the lookups of
\* MappingContext (context.py)
VARIABLES
    wb_items,          \* the items of the store, by qid: label, a second-language label, P1 value
    search_call,       \* the last search call: operation and arguments
    search_outcome,    \* what that call did: returned a map or raised
    qid_cache_label,   \* MappingContext.qid_cache_label
    qid_cache_unique,  \* MappingContext.qid_cache_unique
    ctx_calls,         \* calls made on the context so far
    last_lookup        \* the last call: operation, key, result (see Lookup)

\* ValueResolver.resolve, ClaimBuilder and CreateItemsStep calls
\* (value_resolution.py, claim_builder.py, update_strategies.py)
VARIABLES
    cb_call,      \* the last call: operation and arguments (see BuildCall)
    cb_result,    \* what it did (see BuildResult)
    build_calls   \* calls made so far

buildVars == <<cb_call, cb_result, build_calls>>

\* applications of the comparison, merge and normalisation helpers
VARIABLES
    fn_call,      \* the application: helper and arguments (see FnCall)
    fn_result     \* whether it was made, and the value it returned

fnVars == <<fn_call, fn_result>>

\* ItemBulkSearcher (processor/bulk_item_search.py)
VARIABLES
    bs_cache,       \* ItemBulkSearcher.cache: its entries in the dict's order
    bs_inserted,    \* number of entries the cache has been given so far
    bs_cache_size,  \* ItemBulkSearcher.cache_size
    bs_call,        \* the last find_items_by_labels_optimized call
    bs_result,      \* its result, the chunks it queried, the cache before it,
                    \* the evictions it made
    bs_calls        \* calls made so far

bsVars == <<bs_cache, bs_inserted, bs_cache_size, bs_call, bs_result, bs_calls>>

dbVars == <<wb_items>>

searchVars == <<search_call, search_outcome>>

ctxVars == <<qid_cache_label, qid_cache_unique, ctx_calls, last_lookup>>

vars == <<updVars, procVars, dbVars, searchVars, ctxVars, buildVars, fnVars, bsVars>>

NoMapping == [update_action |-> None, columns |-> {}, filtered |-> <<>>,
              existing |-> {}, created |-> <<>>, updated |-> <<>>]

ProcIdle ==
    /\ current_dataframe = <<>>
    /\ csv_loaded = FALSE
    /\ pids_by_labels = EmptyMap
    /\ qids_by_labels = EmptyMap
    /\ item_labels = {}
    /\ mappings_done = 0
    /\ last_mapping = NoMapping

NoCall == [op |-> "none", labels |-> <<>>, keys |-> <<>>, property |-> None,
           db_ok |-> TRUE]

NoOutcome == [kind |-> "none", qids |-> <<>>, result |-> EmptyMap]

SearchIdle ==
    /\ search_call = NoCall
    /\ search_outcome = NoOutcome

NoLookup == [op |-> "none", label |-> None, property |-> None, value |-> None,
             result |-> None]

CtxIdle ==
    /\ qid_cache_label = EmptyMap
    /\ qid_cache_unique = EmptyMap
    /\ ctx_calls = 0
    /\ last_lookup = NoLookup

DbIdle == wb_items = EmptyMap

\* a call of ValueResolver.resolve, ClaimBuilder.build_claim,
\* ClaimBuilder.apply_statements or CreateItemsStep.run with its arguments
BuildCall(op, value_spec, datatype, item, rows, statements) ==
    [op |-> op, value_spec |-> value_spec, datatype |-> datatype,
     item |-> item, rows |-> rows, statements |-> statements]

\* its outcome: status "ok" (returned), "none" (returned None) or the
\* exception raised; the value returned by resolve; the claims built or the
\* item's claims afterwards; the statements applied (see Op); the calls
\* batch("wikibase-item", items, new) made; the list items of
\* CreateItemsStep.run when it returned
BuildResult(status, value, claims, ops, calls) ==
    [status |-> status, value |-> value, claims |-> claims, ops |-> ops,
     calls |-> calls, items |-> <<>>]

NoBuild == BuildCall("none", [form |-> "none", arg |-> None], None,
                     Entity(None, None, None, EmptyMap), <<>>, <<>>)

NoBuilt == BuildResult("none", None, EmptyMap, <<>>, <<>>)

BuildIdle ==
    /\ cb_call = NoBuild
    /\ cb_result = NoBuilt
    /\ build_calls = 0

\* an application of a helper to two arguments
FnCall(op, a, b, datatype) == [op |-> op, a |-> a, b |-> b, datatype |-> datatype]

NoFn == FnCall("none", None, None, None)

Pending == [done |-> FALSE, value |-> None]

Returns(value) == [done |-> TRUE, value |-> value]

FnIdle ==
    /\ fn_call = NoFn
    /\ fn_result = Pending

NoBsCall == [labels |-> <<>>, use_cache |-> TRUE, chunk_size |-> 1, db_ok |-> TRUE]

NoBsResult == [result |-> EmptyMap, queried |-> <<>>, before |-> <<>>,
               evictions |-> <<>>]

BsIdle ==
    /\ bs_cache = <<>>
    /\ bs_inserted = 0
    /\ bs_cache_size = 1
    /\ bs_call = NoBsCall
    /\ bs_result = NoBsResult
    /\ bs_calls = 0

\* the update run's variables but the property cache
UpdIdle ==
    /\ strategy = "keep"
    /\ mapping_rule = MappingRule(<<>>, NoSnak)
    /\ store = EmptyMap
    /\ working_items = EmptyMap
    /\ working_order = <<>>
    /\ pc = "idle"
    /\ nrows = 0
    /\ idx = 0
    /\ batches = <<>>
    /\ kept_claims = 0
    /\ appended_claims = 0
    /\ lastRow = NoRow
    /\ lastQid = None
    /\ lastOps = <<>>
    /\ contributed = EmptyMap
    /\ fetched = EmptyMap
    /\ rows_log = <<>>
    /\ store0 = EmptyMap

updVarsButCache == <<strategy, mapping_rule, store, working_items,
                     working_order, pc, nrows, idx, batches, kept_claims,
                     appended_claims, lastRow, lastQid, lastOps, contributed, fetched,
                     rows_log, store0>>

notUpdVars == <<procVars, dbVars, searchVars, ctxVars, buildVars, fnVars, bsVars>>

UpdInit ==
    /\ strategy \in Strategies
    /\ mapping_rule \in MappingRules
    /\ \E d \in StoredDocs : store = [q \in {"Q1", "Q2"} |-> IF q = "Q1" THEN d ELSE DocQ2]
    /\ pid_cache = EmptyMap
    /\ working_items = EmptyMap
    /\ working_order = <<>>
    /\ pc = "idle"
    /\ nrows = 0
    /\ idx = 0
    /\ batches = <<>>
    /\ kept_claims = 0
    /\ appended_claims = 0
    /\ lastRow = NoRow
    /\ lastQid = None
    /\ lastOps = <<>>
    /\ contributed = EmptyMap
    /\ fetched = EmptyMap
    /\ rows_log = <<>>
    /\ store0 = store
    /\ ProcIdle /\ DbIdle /\ SearchIdle /\ CtxIdle /\ BuildIdle /\ FnIdle /\ BsIdle

\* context.get_item(qid): the stored document of qid; HasItem(qid) says
\* whether there is one (get_item returns None otherwise)
HasItem(qid) == qid \in DOMAIN store

get_item(qid) == store[qid]

\* the qid _get_or_init_item works with: row["__qid"], else row["__item"]["id"]
RowQid(row) ==
    IF row.qid = None /\ row.hasItem THEN RowItem.id ELSE row.qid

\* _get_or_init_item returns None for the row
NoWorkingItem(row) ==
    \/ RowQid(row) = None
    \/ /\ RowQid(row) \notin DOMAIN working_items
       /\ ~HasItem(RowQid(row))
       /\ ~row.hasItem

\* variant: the working set is not keyed by entity id, the run keeps working
\* on the document of its first row
get_or_init_item_oneDoc(row) ==
    IF working_order # <<>> THEN working_items[working_order[1]]
    ELSE IF HasItem(RowQid(row)) THEN get_item(RowQid(row)) ELSE RowItem

\* the working item _get_or_init_item returns otherwise
get_or_init_item(row) ==
    LET qid == RowQid(row)
    IN IF qid \in DOMAIN working_items THEN working_items[qid]
       ELSE IF HasItem(qid) THEN get_item(qid) ELSE RowItem

\* variant: run() does not clear the working set at its start
StartRun_noReset ==
    /\ pc = "idle"
    /\ \E n \in 0..(MaxRows - Len(rows_log)) :
         /\ nrows' = n
         /\ pc' = IF n = 0 \/ (strategy = "keep" /\ mapping_rule.statements = <<>>)
                  THEN "done" ELSE "rows"
    /\ UNCHANGED <<strategy, mapping_rule, store, pid_cache, idx, batches,
                   kept_claims, appended_claims, lastRow, lastQid, lastOps,
                   contributed, fetched, rows_log, store0,
                   working_items, working_order>>
    /\ UNCHANGED notUpdVars

\* run(), up to the loop over the rows
StartRun ==
    /\ pc = "idle"
    /\ \E n \in 0..(MaxRows - Len(rows_log)) :
         /\ nrows' = n
         /\ pc' = IF n = 0 \/ (strategy = "keep" /\ mapping_rule.statements = <<>>)
                  THEN "done" ELSE "rows"
    /\ working_items' = EmptyMap
    /\ working_order' = <<>>
    /\ UNCHANGED <<strategy, mapping_rule, store, pid_cache, idx, batches,
                   kept_claims, appended_claims, lastRow, lastQid, lastOps,
                   contributed, fetched, rows_log, store0>>
    /\ UNCHANGED notUpdVars

\* the (property, claim) pairs of the statements ops applied
Applied(ops) ==
    LET a == SelectSeq(ops, LAMBDA o : o.kind = "apply")
    IN [i \in DOMAIN a |-> [pid |-> a[i].pid, claim |-> a[i].new]]

\* variant: Replace-All starts from the claims the document holds
RowBaseClaims_keepAll(strat, item) == item.claims

\* the claims a row's statements start from: ReplaceAllStrategy.run sets
\* item["claims"] = {} first
RowBaseClaims(strat, item) ==
    IF strat = "replace_all" THEN EmptyMap ELSE item.claims

\* an entry of rows_log: the row, the qid of its working item (None if it
\* had none) and whether the row was processed without an exception
Logged(row, qid, done) == [row |-> row, qid |-> qid, done |-> done]

\* one iteration of "for _, row in dataframe.iterrows()"
ProcessRow ==
    /\ pc = "rows"
    /\ idx < nrows
    /\ \E row \in Rows(mapping_rule) :
         IF NoWorkingItem(row)
         THEN /\ idx' = idx + 1
              /\ lastRow' = row
              /\ lastQid' = None
              /\ lastOps' = <<>>
              /\ rows_log' = Append(rows_log, Logged(row, None, TRUE))
              /\ UNCHANGED <<working_items, working_order, pid_cache, pc,
                             kept_claims, appended_claims, contributed, fetched>>
         ELSE LET qid == RowQid(row)
                  item0 == set_labels_and_descriptions(get_or_init_item(row), row)
                  acc0 == [claims |-> RowBaseClaims(strategy, item0),
                           cache |-> pid_cache, status |-> "ok",
                           kept |-> kept_claims, appended |-> appended_claims,
                           ops |-> <<>>]
                  acc == RunStatements(strategy, acc0,
                                       statements_with_snak(mapping_rule), row)
              IN /\ working_items' = Put(working_items, qid,
                                         [item0 EXCEPT !.claims = acc.claims])
                 /\ working_order' = IF qid \in DOMAIN working_items THEN working_order
                                     ELSE Append(working_order, qid)
                 /\ pid_cache' = acc.cache
                 /\ kept_claims' = acc.kept
                 /\ appended_claims' = acc.appended
                 /\ lastRow' = row
                 /\ lastQid' = qid
                 /\ lastOps' = acc.ops
                 /\ contributed' = Put(contributed, qid,
                                       GetOr(contributed, qid, <<>>) \o Applied(acc.ops))
                 /\ fetched' = IF qid \in DOMAIN working_items THEN fetched
                               ELSE Put(fetched, qid, get_or_init_item(row))
                 /\ rows_log' = Append(rows_log,
                                       Logged(row, qid, acc.status # "raise"))
                 /\ IF acc.status = "raise"
                    THEN pc' = "failed" /\ idx' = idx
                    ELSE pc' = pc /\ idx' = idx + 1
    /\ UNCHANGED <<strategy, mapping_rule, store, nrows, batches, store0>>
    /\ UNCHANGED notUpdVars

\* the documents _flush_working_items hands to _flush_items
WorkingList == [i \in DOMAIN working_order |-> working_items[working_order[i]]]

\* RaiseWikibase.raiser.batch(new=False): the documents replace the stored ones
StoreAfterBatch(st, items) ==
    [q \in (DOMAIN st) \cup {items[i].id : i \in DOMAIN items} |->
        IF \E i \in DOMAIN items : items[i].id = q
        THEN items[CHOOSE i \in DOMAIN items :
                     items[i].id = q /\ \A j \in DOMAIN items : items[j].id = q => j <= i]
        ELSE st[q]]

\* variant: _flush_working_items does not clear the working set
FinishRun_noClear ==
    /\ pc = "rows"
    /\ idx = nrows
    /\ IF WorkingList # <<>>
       THEN /\ batches' = Append(batches, [items |-> WorkingList, new |-> FALSE])
            /\ store' = StoreAfterBatch(store, WorkingList)
       ELSE UNCHANGED <<batches, store>>
    /\ pc' = "done"
    /\ UNCHANGED <<strategy, mapping_rule, pid_cache, nrows, idx, kept_claims,
                   appended_claims, lastRow, lastQid, lastOps, contributed, fetched,
                   rows_log, store0, working_items, working_order>>
    /\ UNCHANGED notUpdVars

\* _flush_working_items(new=False) at the end of run()
FinishRun ==
    /\ pc = "rows"
    /\ idx = nrows
    /\ IF WorkingList # <<>>
       THEN /\ batches' = Append(batches, [items |-> WorkingList, new |-> FALSE])
            /\ store' = StoreAfterBatch(store, WorkingList)
       ELSE UNCHANGED <<batches, store>>
    /\ working_items' = EmptyMap
    /\ working_order' = <<>>
    /\ pc' = "done"
    /\ UNCHANGED <<strategy, mapping_rule, pid_cache, nrows, idx, kept_claims,
                   appended_claims, lastRow, lastQid, lastOps, contributed, fetched,
                   rows_log, store0>>
    /\ UNCHANGED notUpdVars

UpdNext == StartRun \/ ProcessRow \/ FinishRun

SpecUpd == UpdInit /\ [][UpdNext]_vars

\* ------------------------------------------------------------------------
\* Properties of the update strategies
\* ------------------------------------------------------------------------
\* the documents of the run: the working set while the rows are iterated,
\* the documents handed to batch() once the run has returned
FlushedItems == IF batches = <<>> THEN <<>> ELSE batches[Len(batches)].items

RunDocs ==
    IF pc = "done"
    THEN [q \in {FlushedItems[i].id : i \in DOMAIN FlushedItems} |->
            FlushedItems[CHOOSE i \in DOMAIN FlushedItems : FlushedItems[i].id = q]]
    ELSE working_items

\* claim c is in the list: some claim of the list has its mainsnak and, for
\* every qualifier property of c, all of c's qualifier snaks
ClaimPresent(list, c) ==
    \E i \in DOMAIN list :
        /\ IsSameSnak(list[i].mainsnak, c.mainsnak)
        /\ \A p \in DOMAIN c.qualifiers :
              /\ p \in DOMAIN list[i].qualifiers
              /\ \A k \in DOMAIN c.qualifiers[p] :
                    \E m \in DOMAIN list[i].qualifiers[p] :
                        IsSameSnak(list[i].qualifiers[p][m], c.qualifiers[p][k])

ContributionsPresent ==
    \A q \in DOMAIN contributed :
        /\ q \in DOMAIN RunDocs
        /\ \A i \in DOMAIN contributed[q] :
              ClaimPresent(GetOr(RunDocs[q].claims, contributed[q][i].pid, <<>>),
                           contributed[q][i].claim)

\* C1: for each of the six strategies, the claims the rows of a run applied
\* to an entity's working document are all in the document flushed at the
\* end of the run.
C1_ClaimsAccumulate == pc = "done" => ContributionsPresent

\* C1 restricted to the five strategies other than Replace-All
C1_AccumulateButReplaceAll ==
    (pc = "done" /\ strategy # "replace_all") => ContributionsPresent

\* the run fetched entity q, whose stored document had claims of property pid
FetchedWith(q, pid) ==
    /\ q \in DOMAIN fetched /\ q \in DOMAIN RunDocs
    /\ pid \in DOMAIN fetched[q].claims
    /\ fetched[q].claims[pid] # <<>>

\* the statements of the rule whose claim builds for the last row
LastStatements == statements_with_snak(mapping_rule)

LastBuilt ==
    {i \in DOMAIN LastStatements :
        BuildClaim(pid_cache, LastStatements[i], lastRow).status = "ok"}

LastClaim(i) == BuildClaim(pid_cache, LastStatements[i], lastRow)

\* C2: after ReplaceAllStrategy has processed a row for an existing entity,
\* the document's claims map holds exactly the claims built from the
\* statements for that row (one list per property that a statement built,
\* holding the claim of the last such statement) and no other property.
C2_ReplaceAllExact ==
    (strategy = "replace_all" /\ lastQid # None /\ pc \in {"rows", "done"}) =>
        LET claims == RunDocs[lastQid].claims
        IN /\ DOMAIN claims = {LastClaim(i).pid : i \in LastBuilt}
           /\ \A i \in LastBuilt :
                 (\A j \in LastBuilt : LastClaim(j).pid = LastClaim(i).pid => j <= i)
                 => claims[LastClaim(i).pid] = <<LastClaim(i).claim>>

C2_Witness ==
    /\ strategy = "replace_all" /\ pc = "done" /\ lastQid = "Q1"
    /\ FetchedWith("Q1", "P1")
    /\ DOMAIN RunDocs["Q1"].claims = {"P2"}
    /\ Len(RunDocs["Q1"].claims["P2"]) = 1

\* the document a row's statements start from
BaseDoc(q) == IF q \in DOMAIN working_items THEN working_items[q] ELSE fetched'[q]

\* C3: in KeepStrategy a property whose claim list is non-empty when a
\* statement for it is processed keeps that list unchanged up to the flushed
\* document, and a built claim is stored only under a property without claims.
C3_KeepStep ==
    strategy = "keep" =>
        /\ \A q \in DOMAIN working_items' :
              \A pid \in DOMAIN BaseDoc(q).claims :
                 BaseDoc(q).claims[pid] # <<>> =>
                    /\ pid \in DOMAIN working_items'[q].claims
                    /\ working_items'[q].claims[pid] = BaseDoc(q).claims[pid]
        /\ \A i \in DOMAIN lastOps' :
              IF lastOps'[i].before # <<>>
              THEN lastOps'[i].kind = "kept" /\ lastOps'[i].after = lastOps'[i].before
              ELSE lastOps'[i].kind = "apply" /\ lastOps'[i].after = <<lastOps'[i].new>>
        /\ (pc = "rows" /\ pc' = "done") =>
              \A q \in DOMAIN working_items :
                 \E i \in DOMAIN batches'[Len(batches')].items :
                    batches'[Len(batches')].items[i] = working_items[q]

C3_KeepUntouched == [][C3_KeepStep]_vars

C3_Witness ==
    /\ strategy = "keep" /\ pc = "done" /\ lastQid = "Q1"
    /\ FetchedWith("Q1", "P1")
    /\ \E i, j \in DOMAIN lastOps :
          /\ lastOps[i].kind = "kept" /\ lastOps[i].pid = "P1"
          /\ lastOps[j].kind = "apply" /\ lastOps[j].pid = "P2"
    /\ RunDocs["Q1"].claims["P1"] = fetched["Q1"].claims["P1"]
    /\ kept_claims = 1 /\ appended_claims = 1

\* the claims of op.before that are the same claim as the one built
SameIn(op) == {k \in DOMAIN op.before : is_same_claim(op.new, op.before[k])}

First(S) == CHOOSE k \in S : \A j \in S : k <= j

\* the last statement of the row that touched the property of lastOps[i]
LastOpOfPid(i) == \A j \in DOMAIN lastOps : lastOps[j].pid = lastOps[i].pid => j <= i

\* C4: in AppendOrReplaceStrategy a built claim replaces the first existing
\* claim of the property that is the same claim (equal mainsnak and
\* qualifiers), at that claim's index, carrying its id when that id is not
\* empty, with the list's length and the other claims unchanged; when no
\* existing claim is the same it is appended and the existing ones are unchanged.
C4_AppendOrReplace ==
    (strategy = "append_or_replace" /\ pc \in {"rows", "done"}) =>
        \A i \in DOMAIN lastOps :
            LET op == lastOps[i]
            IN /\ IF SameIn(op) # {}
                  THEN LET k == First(SameIn(op))
                       IN /\ Len(op.after) = Len(op.before)
                          /\ op.after[k] =
                               [op.new EXCEPT !.id = IF op.before[k].id # ""
                                                     THEN op.before[k].id ELSE @]
                          /\ \A j \in DOMAIN op.before :
                                j # k => op.after[j] = op.before[j]
                  ELSE op.after = Append(op.before, op.new)
               /\ LastOpOfPid(i) => RunDocs[lastQid].claims[op.pid] = op.after

C4_Witness ==
    /\ strategy = "append_or_replace" /\ pc = "done"
    /\ \E i \in DOMAIN lastOps :
          /\ SameIn(lastOps[i]) # {}
          /\ Len(lastOps[i].before) = 2
          /\ \E k \in DOMAIN lastOps[i].before :
                /\ lastOps[i].after[k].id = "Q1$a"
                /\ lastOps[i].after[k] # lastOps[i].before[k]
                /\ lastOps[i].after[k].references = lastOps[i].new.references

\* the claims the rows of the run applied to property pid of entity q, in order
RECURSIVE ContributedTo(_, _)
ContributedTo(entries, pid) ==
    IF entries = <<>> THEN <<>>
    ELSE IF Head(entries).pid = pid
         THEN <<Head(entries).claim>> \o ContributedTo(Tail(entries), pid)
         ELSE ContributedTo(Tail(entries), pid)

\* C5: in ForceAppendStrategy every statement whose claim builds appends that
\* one claim at the end of the property's list, an equal claim in the list or
\* not; the list of a property is the fetched list followed by the claims
\* applied to it during the run, in order.
C5_ForceAppend ==
    (strategy = "force_append" /\ pc \in {"rows", "done"}) =>
        /\ \A i \in DOMAIN lastOps :
              lastOps[i].after = Append(lastOps[i].before, lastOps[i].new)
        /\ lastQid # None => Len(lastOps) = Cardinality(LastBuilt)
        /\ \A q \in DOMAIN contributed :
              \A pid \in DOMAIN RunDocs[q].claims :
                 RunDocs[q].claims[pid] =
                    GetOr(fetched[q].claims, pid, <<>>) \o ContributedTo(contributed[q], pid)

C5_Witness ==
    /\ strategy = "force_append" /\ pc = "done"
    /\ FetchedWith("Q1", "P1")
    /\ Len(fetched["Q1"].claims["P1"]) = 1
    /\ Len(RunDocs["Q1"].claims["P1"]) = 3
    /\ is_same_claim(RunDocs["Q1"].claims["P1"][1], RunDocs["Q1"].claims["P1"][2])
    /\ RunDocs["Q1"].claims["P1"][2] = RunDocs["Q1"].claims["P1"][3]

\* the claims of op.before with the mainsnak value and qualifiers of the one built
MatchIn(op) == {k \in DOMAIN op.before : MergeRefsMatch(op.new, op.before[k])}

BlockIn(block, refs) == \E j \in DOMAIN refs : RefBlockMatches(block, refs[j])

\* C6: in MergeRefsOrAppendStrategy, when an existing claim of the property
\* has the mainsnak value and the qualifiers of the built claim, every
\* reference block of the built claim is in that claim's references
\* afterwards and up to the flushed document, and the list has not grown;
\* when no existing claim matches, the built claim is appended.
C6_MergeRefs ==
    (strategy = "merge_refs_or_append" /\ pc \in {"rows", "done"}) =>
        \A i \in DOMAIN lastOps :
            LET op == lastOps[i]
            IN IF MatchIn(op) # {}
               THEN LET k == First(MatchIn(op))
                    IN /\ Len(op.after) = Len(op.before)
                       /\ \A r \in DOMAIN op.new.references :
                             /\ BlockIn(op.new.references[r], op.after[k].references)
                             /\ BlockIn(op.new.references[r],
                                        RunDocs[lastQid].claims[op.pid][k].references)
               ELSE op.after = Append(op.before, op.new)

\* C6 for matched claims that carry a "references" key
C6_MergeRefsWithKey ==
    (strategy = "merge_refs_or_append" /\ pc \in {"rows", "done"}) =>
        \A i \in DOMAIN lastOps :
            LET op == lastOps[i]
            IN IF MatchIn(op) # {}
               THEN LET k == First(MatchIn(op))
                    IN /\ Len(op.after) = Len(op.before)
                       /\ op.before[k].hasRefs =>
                            \A r \in DOMAIN op.new.references :
                               BlockIn(op.new.references[r], op.after[k].references)
               ELSE op.after = Append(op.before, op.new)

IsPrefix(s, t) == Len(s) <= Len(t) /\ \A i \in DOMAIN s : t[i] = s[i]

\* C7: in MergeQualifiersStrategy processing a row removes or replaces no
\* qualifier value: for each claim of the working document and each qualifier
\* property, the snak list before the row is a prefix of the list after it,
\* and each snak added equals no snak before it in the list.
C7_QualifierStep ==
    strategy = "merge_qualifiers_or_append" =>
        \A q \in DOMAIN working_items' :
           \A pid \in DOMAIN BaseDoc(q).claims :
              \A k \in DOMAIN BaseDoc(q).claims[pid] :
                 LET old == BaseDoc(q).claims[pid][k]
                     new == working_items'[q].claims[pid][k]
                 IN /\ pid \in DOMAIN working_items'[q].claims
                    /\ k \in DOMAIN working_items'[q].claims[pid]
                    /\ IsSameSnak(old.mainsnak, new.mainsnak)
                    /\ DOMAIN old.qualifiers \subseteq DOMAIN new.qualifiers
                    /\ \A p \in DOMAIN new.qualifiers :
                          LET before == GetOr(old.qualifiers, p, <<>>)
                              after == new.qualifiers[p]
                          IN /\ IsPrefix(before, after)
                             /\ \A m \in (Len(before) + 1)..Len(after) :
                                   \A j \in 1..(m - 1) :
                                      ~IsSameSnak(after[j], after[m])

C7_QualifiersOnlyGrow == [][C7_QualifierStep]_vars

C7_Witness ==
    /\ strategy = "merge_qualifiers_or_append" /\ pc = "done"
    /\ FetchedWith("Q1", "P1")
    /\ "Pq1" \in DOMAIN fetched["Q1"].claims["P1"][1].qualifiers
    /\ Len(fetched["Q1"].claims["P1"][1].qualifiers["Pq1"]) = 1
    /\ Len(RunDocs["Q1"].claims["P1"][1].qualifiers["Pq1"]) = 2
    /\ RunDocs["Q1"].claims["P1"][1].qualifiers["Pq1"][1]
          = fetched["Q1"].claims["P1"][1].qualifiers["Pq1"][1]
    /\ Len(lastOps) = 1
    /\ "Pq1" \in DOMAIN lastOps[1].new.qualifiers

\* ------------------------------------------------------------------------
\* MappingProcessor: one CSV file, its item mappings
\* ------------------------------------------------------------------------
MaxCsvRows == 2

MaxMappings == 2

\* a missing cell of the CSV file
NaN == "NaN"

CsvLabels == {"a", "b", NaN}

CsvRow(l, v) == [label |-> l, val |-> v]

CsvRows == {CsvRow(l, v) : l \in CsvLabels, v \in {"x", "y"}}

Dataframes == UNION {[1..n -> CsvRows] : n \in 0..MaxCsvRows}

UpdateActions == {"append_or_replace", "force_append", "keep", "replace_all",
                  "merge_refs_or_append"}

\* An item mapping: its update action (None: not configured) and the
\* columns its statements read besides the label column; a statement on the
\* column "val" has the property label "L1" and a string datatype.
ItemMapping(update_action, columns) ==
    [update_action |-> update_action, columns |-> columns]

ItemMappings ==
    {ItemMapping(a, c) : a \in UpdateActions \cup {None}, c \in {{}, {"val"}}}

\* DataFrame.drop_duplicates: the first occurrence of each row, in order
DropDuplicates(df) ==
    SelectSeq([i \in DOMAIN df |-> [row |-> df[i],
                                    first |-> \A j \in 1..(i-1) : df[j] # df[i]]],
              LAMBDA e : e.first)

Project(df, item_mapping) ==
    [i \in DOMAIN df |->
        CsvRow(df[i].label, IF "val" \in item_mapping.columns THEN df[i].val ELSE None)]

filter_dataframe(dataframe, item_mapping) ==
    LET projected == Project(dataframe, item_mapping)
        labelled == SelectSeq(projected, LAMBDA r : r.label # NaN)
        kept == DropDuplicates(labelled)
    IN [i \in DOMAIN kept |-> kept[i].row]

\* the labels of the label column; the statements have no wikibase-item value
get_label_by_column(dataframe, item_mapping) ==
    {dataframe[i].label : i \in DOMAIN dataframe} \ {NaN}

update_pids_by_labels(cache, item_mapping) ==
    IF "val" \in item_mapping.columns
    THEN Put(cache, "L1", FindPropertyInfo("L1").id)
    ELSE cache

\* the id of the item that carries a label
QidOf(l) == CASE l = "a" -> "Q1" [] l = "b" -> "Q2" [] OTHER -> "Q9"

\* ItemBulkSearcher.find_items_by_labels_optimized on a new searcher (its
\* cache is empty): the labels found, with their ids; a failed query gives {}
ItemBulkSearcher_find_items_by_labels_optimized(labels, in_store, db_ok) ==
    IF db_ok
    THEN [l \in (labels \ {NaN, "nan", "none", ""}) \cap in_store |-> QidOf(l)]
    ELSE EmptyMap

update_qids_by_labels(cache, labels, in_store, db_ok) ==
    LET items_found == ItemBulkSearcher_find_items_by_labels_optimized(labels, in_store, db_ok)
    IN [l \in (DOMAIN cache) \cup (DOMAIN items_found) |->
          IF l \in DOMAIN items_found THEN items_found[l] ELSE cache[l]]

\* what one process_item_mapping call did
MappingRecord(item_mapping, filtered, existing, created, updated) ==
    [update_action |-> item_mapping.update_action,
     columns |-> item_mapping.columns,
     filtered |-> filtered, existing |-> existing,
     created |-> created, updated |-> updated]

\* pd.read_csv in MappingProcessor.process
ReadCsv ==
    /\ mappings_done < MaxMappings
    /\ current_dataframe' \in Dataframes
    /\ csv_loaded' = TRUE
    /\ UNCHANGED <<pids_by_labels, qids_by_labels, item_labels, mappings_done,
                   last_mapping>>
    /\ UNCHANGED <<updVars, dbVars, searchVars, ctxVars, buildVars, fnVars, bsVars>>

process_item_mapping(item_mapping, db_ok) ==
    LET filtered_dataframe == filter_dataframe(current_dataframe, item_mapping)
        list_of_label_values == get_label_by_column(filtered_dataframe, item_mapping)
        qids == update_qids_by_labels(qids_by_labels, list_of_label_values,
                                      item_labels, db_ok)
        df_items_found == SelectSeq(filtered_dataframe,
                                    LAMBDA r : r.label \in DOMAIN qids)
        df_items_not_found == SelectSeq(filtered_dataframe,
                                        LAMBDA r : r.label \notin DOMAIN qids)
    IN /\ pids_by_labels' = update_pids_by_labels(pids_by_labels, item_mapping)
       /\ qids_by_labels' = qids
       /\ IF item_mapping.update_action # None
          THEN \* bulk_update_items(df_items_found, item_mapping)
               /\ item_labels' = item_labels
               /\ last_mapping' = MappingRecord(item_mapping, filtered_dataframe,
                                                item_labels, <<>>, df_items_found)
          ELSE \* bulk_create_items(df_items_not_found, item_mapping)
               /\ item_labels' = item_labels \cup
                     {df_items_not_found[i].label : i \in DOMAIN df_items_not_found}
               /\ last_mapping' = MappingRecord(item_mapping, filtered_dataframe,
                                                item_labels, df_items_not_found, <<>>)

ProcessItemMapping ==
    /\ csv_loaded
    /\ mappings_done < MaxMappings
    /\ \E item_mapping \in ItemMappings, db_ok \in BOOLEAN :
          process_item_mapping(item_mapping, db_ok)
    /\ mappings_done' = mappings_done + 1
    /\ UNCHANGED <<current_dataframe, csv_loaded>>
    /\ UNCHANGED <<updVars, dbVars, searchVars, ctxVars, buildVars, fnVars, bsVars>>

ProcInit ==
    /\ current_dataframe = <<>>
    /\ csv_loaded = FALSE
    /\ pids_by_labels = EmptyMap
    /\ qids_by_labels = EmptyMap
    /\ item_labels \in SUBSET {"a", "b"}
    /\ mappings_done = 0
    /\ last_mapping = NoMapping
    /\ UpdIdle /\ pid_cache = EmptyMap
    /\ DbIdle /\ SearchIdle /\ CtxIdle /\ BuildIdle /\ FnIdle /\ BsIdle

ProcNext == ReadCsv \/ ProcessItemMapping

SpecProc == ProcInit /\ [][ProcNext]_vars

InSeq(x, seq) == \E i \in DOMAIN seq : seq[i] = x

\* C8: every row of the filtered data goes to exactly one path: to creation
\* when no item of the store carries its label, to the update strategy when
\* one does; with an update action configured the rows without an item are
\* created all the same, and without one nothing is updated.
C8_Dispatch ==
    mappings_done > 0 =>
        LET m == last_mapping
        IN /\ \A i \in DOMAIN m.filtered :
                 LET r == m.filtered[i]
                 IN IF r.label \in m.existing
                    THEN /\ ~InSeq(r, m.created)
                         /\ m.update_action # None => InSeq(r, m.updated)
                    ELSE /\ InSeq(r, m.created)
                         /\ ~InSeq(r, m.updated)
           /\ m.update_action = None => m.updated = <<>>

\* ------------------------------------------------------------------------
\* RaiseWikibaseBackend: searches by label and by label + snak value
\* ------------------------------------------------------------------------
MaxKeys == 2

\* RaiseWikibaseBackend._normalize_label: str(value).strip(), None for an
\* empty text and for "nan" / "none" in any letter case
normalize_label(value) ==
    CASE value = None                            -> None
      [] value \in {"", " "}                      -> None
      [] value \in {"nan", "NaN", "none", "NONE"} -> None
      [] value = " a "                            -> "a"
      [] OTHER                                    -> value

\* _normalize_unique_value for a datatype other than quantity: str(value).strip()
normalize_unique_value(value) ==
    CASE value = None          -> None
      [] value \in {"", " "}   -> None
      [] value = " v1"         -> "v1"
      [] OTHER                 -> value

ItemIds == <<"Q1", "Q2">>

\* an item of the store: its label, whether it has the same text as label in
\* a second language, and the value of its P1 claim (None: no P1 claim)
WbItem(l, de, v) == [label |-> l, de_label |-> de, value |-> v]

WbStores ==
    {[q \in {"Q1", "Q2"} |-> IF q = "Q1" THEN i1 ELSE i2] :
        i1 \in {WbItem(l, de, v) : l \in {"a", "nan"}, de \in BOOLEAN, v \in {"v1", None}},
        i2 \in {WbItem(l, FALSE, v) : l \in {"a", "b", "nan"}, v \in {"v1", "v2"}}}

\* the rows the query of _fetch_items_with_data yields for one item: one per
\* label term with one of the texts asked for (the query joins the terms of
\* every language)
ItemTermRows(items, qid, texts) ==
    IF items[qid].label \in texts
    THEN LET row == [label |-> items[qid].label, qid |-> qid, value |-> items[qid].value]
         IN IF items[qid].de_label THEN <<row, row>> ELSE <<row>>
    ELSE <<>>

RECURSIVE QueryRows(_, _, _)
QueryRows(items, qids, texts) ==
    IF qids = <<>> THEN <<>>
    ELSE ItemTermRows(items, Head(qids), texts) \o QueryRows(items, Tail(qids), texts)

\* the texts of a list that _normalize_label keeps, normalized, without repeats
RECURSIVE NormalizedLabels(_)
NormalizedLabels(labels) ==
    IF labels = <<>> THEN <<>>
    ELSE LET rest == NormalizedLabels(Tail(labels))
             n == normalize_label(Head(labels))
         IN IF n = None THEN rest
            ELSE <<n>> \o SelectSeq(rest, LAMBDA x : x # n)

\* RaiseWikibaseBackend._fetch_items_with_data: a failed query gives no rows
fetch_items_with_data(items, labels, db_ok) ==
    LET normalized == NormalizedLabels(labels)
    IN IF normalized = <<>> \/ ~db_ok THEN <<>>
       ELSE QueryRows(items, ItemIds, Range(normalized))

Returned(result) == [kind |-> "returned", qids |-> <<>>, result |-> result]

Raised(qids) == [kind |-> "raised", qids |-> qids, result |-> EmptyMap]

QidsOf(rows) == [i \in DOMAIN rows |-> rows[i].qid]

find_items_by_labels(items, labels, db_ok) ==
    LET normalized == NormalizedLabels(labels)
        rows == fetch_items_with_data(items, normalized, db_ok)
        items_by_label(l) == QidsOf(SelectSeq(rows, LAMBDA r : r.label = l))
        ambiguous == {i \in DOMAIN normalized : Len(items_by_label(normalized[i])) > 1}
    IN IF labels = <<>> \/ normalized = <<>> THEN Returned(EmptyMap)
       ELSE IF ambiguous # {}
            \* the loop over the labels raises at the first ambiguous one
            THEN Raised(items_by_label(normalized[First(ambiguous)]))
       ELSE Returned([l \in Range(normalized) |->
                        IF items_by_label(l) = <<>> THEN None
                        ELSE items_by_label(l)[1]])

SearchKey(l, v) == [label |-> l, value |-> v]

\* the keys whose label and value both normalize to a text, in order, repeats kept
RECURSIVE NormalizedKeys(_)
NormalizedKeys(keys) ==
    IF keys = <<>> THEN <<>>
    ELSE LET norm_label == normalize_label(Head(keys).label)
             norm_value == normalize_unique_value(Head(keys).value)
         IN (IF norm_label # None /\ norm_value # None
             THEN <<SearchKey(norm_label, norm_value)>> ELSE <<>>)
            \o NormalizedKeys(Tail(keys))

\* the appends to matches_by_key, in order: for each row, for each expected
\* value of the row's label that is among the item's claim values
\* _extract_claim_values: the normalized values of the item's claims of the property
extract_claim_values(row, property_id) ==
    IF property_id = "P1" /\ normalize_unique_value(row.value) # None
    THEN {normalize_unique_value(row.value)} ELSE {}

RECURSIVE KeyHits(_, _, _)
KeyHits(rows, normalized_keys, property_id) ==
    IF rows = <<>> THEN <<>>
    ELSE LET r == Head(rows)
             expected == SelectSeq(normalized_keys,
                            LAMBDA k : /\ k.label = r.label
                                       /\ k.value \in extract_claim_values(r, property_id))
         IN [i \in DOMAIN expected |-> [key |-> expected[i], qid |-> r.qid]]
            \o KeyHits(Tail(rows), normalized_keys, property_id)

find_items_by_label_and_snak(items, keys, property_id, db_ok) ==
    LET normalized_keys == NormalizedKeys(keys)
        label_set == [i \in DOMAIN normalized_keys |-> normalized_keys[i].label]
        rows == fetch_items_with_data(items, label_set, db_ok)
        hits == KeyHits(rows, normalized_keys, property_id)
        matches_by_key(k) == QidsOf(SelectSeq(hits, LAMBDA h : h.key = k))
        ambiguous == {i \in DOMAIN hits : Len(matches_by_key(hits[i].key)) > 1}
    IN IF keys = <<>> \/ normalized_keys = <<>> THEN Returned(EmptyMap)
       ELSE IF ambiguous # {}
            THEN Raised(matches_by_key(hits[First(ambiguous)].key))
       ELSE Returned([k \in {hits[i].key : i \in DOMAIN hits} |->
                        matches_by_key(k)[1]])

RequestLabels == {"a", " a ", "b", "nan"}

RequestKeys ==
    {SearchKey(l, v) : l \in {"a", "nan"}, v \in {"v1", " v1"}}
        \cup {SearchKey(" a ", "v1"), SearchKey("a", None)}

LabelLists == UNION {[1..n -> RequestLabels] : n \in 0..MaxKeys}

KeyLists == UNION {[1..n -> RequestKeys] : n \in 0..MaxKeys}

FindItemsByLabels ==
    /\ \E labels \in LabelLists, db_ok \in BOOLEAN :
          /\ search_call' = [op |-> "labels", labels |-> labels, keys |-> <<>>,
                             property |-> None, db_ok |-> db_ok]
          /\ search_outcome' = find_items_by_labels(wb_items, labels, db_ok)
    /\ UNCHANGED <<updVars, procVars, dbVars, ctxVars, buildVars, fnVars, bsVars>>

FindItemsByLabelAndSnak ==
    /\ \E keys \in KeyLists, property_id \in {"P1", "P2"}, db_ok \in BOOLEAN :
          /\ search_call' = [op |-> "label_and_snak", labels |-> <<>>, keys |-> keys,
                             property |-> property_id, db_ok |-> db_ok]
          /\ search_outcome' = find_items_by_label_and_snak(wb_items, keys,
                                                            property_id, db_ok)
    /\ UNCHANGED <<updVars, procVars, dbVars, ctxVars, buildVars, fnVars, bsVars>>

SearchInit ==
    /\ wb_items \in WbStores
    /\ SearchIdle
    /\ UpdIdle /\ pid_cache = EmptyMap
    /\ ProcIdle /\ CtxIdle /\ BuildIdle /\ FnIdle /\ BsIdle

SearchNext == FindItemsByLabels \/ FindItemsByLabelAndSnak

SpecSearch == SearchInit /\ [][SearchNext]_vars

\* the items that carry the label / the label and the P1 value
LabelCarriers(l) == {q \in DOMAIN wb_items : wb_items[q].label = l}

KeyCarriers(k, property_id) ==
    {q \in DOMAIN wb_items : /\ wb_items[q].label = k.label
                             /\ property_id = "P1"
                             /\ wb_items[q].value = k.value}

\* C9: find_items_by_labels raises the ambiguity error whenever two distinct
\* items carry one of the labels asked for, find_items_by_label_and_snak
\* whenever two distinct items carry one of the (label, value) pairs asked
\* for; the error names the ids of the items that match an ambiguous key and
\* no result map is returned.
C9_AmbiguityRaises ==
    /\ (search_call.op = "labels"
          /\ \E i \in DOMAIN search_call.labels :
                Cardinality(LabelCarriers(search_call.labels[i])) > 1)
       => /\ search_outcome.kind = "raised"
          /\ search_outcome.result = EmptyMap
          /\ \E i \in DOMAIN search_call.labels :
                /\ Cardinality(LabelCarriers(search_call.labels[i])) > 1
                /\ Range(search_outcome.qids) = LabelCarriers(search_call.labels[i])
    /\ (search_call.op = "label_and_snak"
          /\ \E i \in DOMAIN search_call.keys :
                Cardinality(KeyCarriers(search_call.keys[i], search_call.property)) > 1)
       => /\ search_outcome.kind = "raised"
          /\ search_outcome.result = EmptyMap
          /\ \E i \in DOMAIN search_call.keys :
                /\ Cardinality(KeyCarriers(search_call.keys[i], search_call.property)) > 1
                /\ Range(search_outcome.qids) =
                      KeyCarriers(search_call.keys[i], search_call.property)

\* C29: find_items_by_label_and_snak raises the ambiguity error only if at
\* least two distinct items match one of the (label, value) keys asked for;
\* a key passed twice, or two values with one normal form, raise nothing when
\* exactly one item matches, and the call returns that item for the key.
C29_AmbiguityNeedsTwoItems ==
    (search_call.op = "label_and_snak" /\ search_call.db_ok) =>
        LET normalized_keys == NormalizedKeys(search_call.keys)
            carriers(i) == KeyCarriers(normalized_keys[i], search_call.property)
        IN /\ search_outcome.kind = "raised"
                 => \E i \in DOMAIN normalized_keys : Cardinality(carriers(i)) >= 2
           /\ (\A i \in DOMAIN normalized_keys : Cardinality(carriers(i)) <= 1)
                 => \A i \in DOMAIN normalized_keys :
                       Cardinality(carriers(i)) = 1
                          => /\ normalized_keys[i] \in DOMAIN search_outcome.result
                             /\ search_outcome.result[normalized_keys[i]] \in carriers(i)

\* the same property for requests that repeat no key and stores whose items
\* have their label text in one language only
C29_DistinctKeysOneLanguage ==
    (/\ search_call.op = "label_and_snak" /\ search_call.db_ok
     /\ \A q \in DOMAIN wb_items : ~wb_items[q].de_label
     /\ \A i, j \in DOMAIN NormalizedKeys(search_call.keys) :
           NormalizedKeys(search_call.keys)[i] = NormalizedKeys(search_call.keys)[j]
              => i = j)
    => C29_AmbiguityNeedsTwoItems

\* ------------------------------------------------------------------------
\* MappingContext: priming calls and point lookups
\* ------------------------------------------------------------------------
MaxCalls == 2

\* MappingContext._normalize_term: str(term).strip(), None for an empty text
normalize_term(term) ==
    CASE term = None          -> None
      [] term \in {"", " "}   -> None
      [] term = " a "         -> "a"
      [] OTHER                -> term

\* the property labels ensure_properties collects from a rule
PropertyLabelsOf(rule) ==
    UNION {{rule.statements[i].property}
             \cup {rule.statements[i].qualifiers[j].property :
                      j \in DOMAIN rule.statements[i].qualifiers}
             \cup {rule.statements[i].references[j].property :
                      j \in DOMAIN rule.statements[i].references} :
           i \in DOMAIN rule.statements}
      \cup (IF rule.snak = NoSnak THEN {} ELSE {rule.snak.property})

Cached(cache, lbls) ==
    [l \in (DOMAIN cache) \cup lbls |->
        IF l \in DOMAIN cache THEN cache[l] ELSE FindPropertyInfo(l)]

\* variant: the label that does not resolve is cached with the store's answer
ensure_properties_cacheUnresolved(cache, rule) ==
    LET todo == PropertyLabelsOf(rule) \ DOMAIN cache
        unresolved == {l \in todo : FindPropertyInfo(l).id = NoPid}
    IN IF unresolved = {}
       THEN {[raised |-> FALSE, cache |-> Cached(cache, todo), looked |-> todo]}
       ELSE {[raised |-> TRUE, cache |-> Cached(cache, done \cup {bad}),
              looked |-> done \cup {bad}] :
                done \in SUBSET (todo \ unresolved), bad \in unresolved}

\* ensure_properties: the caches it can leave and the labels it looks up.
\* The labels are looked up in an order of the label set; the first one that
\* does not resolve raises, with the labels looked up before it cached.
ensure_properties(cache, rule) ==
    LET todo == PropertyLabelsOf(rule) \ DOMAIN cache
        unresolved == {l \in todo : FindPropertyInfo(l).id = NoPid}
    IN IF unresolved = {}
       THEN {[raised |-> FALSE, cache |-> Cached(cache, todo), looked |-> todo]}
       ELSE {[raised |-> TRUE, cache |-> Cached(cache, done),
              looked |-> done \cup {bad}] :
                done \in SUBSET (todo \ unresolved), bad \in unresolved}

\* RaiseWikibaseBackend.find_items_by_labels_optimized: the maps label -> id
\* it can return. Of the items that carry a label the one whose row the
\* query yields last is kept; a failed query gives {}.
find_items_by_labels_optimized(items, labels, db_ok) ==
    LET normalized == Range(NormalizedLabels(labels))
        found == {l \in normalized : \E q \in DOMAIN items : items[q].label = l}
    IN IF ~db_ok THEN {EmptyMap}
       ELSE {pick \in [found -> DOMAIN items] :
                \A l \in found : items[pick[l]].label = l}

RECURSIVE NormalizedTerms(_)
NormalizedTerms(labels) ==
    IF labels = <<>> THEN <<>>
    ELSE (IF normalize_term(Head(labels)) = None THEN <<>>
          ELSE <<normalize_term(Head(labels))>>) \o NormalizedTerms(Tail(labels))

Update(cache, found) ==
    [k \in (DOMAIN cache) \cup (DOMAIN found) |->
        IF k \in DOMAIN found THEN found[k] ELSE cache[k]]

\* ensure_qids_for_labels: the caches it can leave
ensure_qids_for_labels(cache, items, labels, db_ok) ==
    LET normalized == NormalizedTerms(labels)
    IN IF normalized = <<>> THEN {cache}
       ELSE {Update(cache, qids_found) :
                qids_found \in find_items_by_labels_optimized(items, normalized, db_ok)}

\* the search by (label, value) pairs for a property the context calls
find_items_by_unique_key(items, keys, property_id) ==
    find_items_by_label_and_snak(items, keys, property_id, TRUE)

RECURSIVE NormalizedTermKeys(_)
NormalizedTermKeys(keys) ==
    IF keys = <<>> THEN <<>>
    ELSE LET norm_label == normalize_term(Head(keys).label)
             norm_value == normalize_unique_value(Head(keys).value)
         IN (IF norm_label # None /\ norm_value # None
             THEN <<SearchKey(norm_label, norm_value)>> ELSE <<>>)
            \o NormalizedTermKeys(Tail(keys))

UniqueEntries(items_found, property_id) ==
    LET ks == {k \in DOMAIN items_found :
                  normalize_term(k.label) # None /\ normalize_unique_value(k.value) # None}
    IN [t \in {<<normalize_term(k.label), property_id, normalize_unique_value(k.value)>> :
                  k \in ks} |->
          items_found[CHOOSE k \in ks :
              t = <<normalize_term(k.label), property_id, normalize_unique_value(k.value)>>]]

ensure_qids_for_unique_keys(cache, items, keys, property_id) ==
    LET normalized_keys == NormalizedTermKeys(keys)
        found == find_items_by_unique_key(items, normalized_keys, property_id)
    IN IF normalized_keys = <<>> THEN [raised |-> FALSE, cache |-> cache]
       ELSE IF found.kind = "raised" THEN [raised |-> TRUE, cache |-> cache]
       ELSE [raised |-> FALSE,
             cache |-> Update(cache, UniqueEntries(found.result, property_id))]

get_property_id(cache, lbl) ==
    IF lbl = None \/ lbl = "" \/ PropertyInfoOf(cache, lbl).id = NoPid
    THEN "ValueError" ELSE PropertyInfoOf(cache, lbl).id

get_qid_by_label(cache, label) ==
    LET norm == normalize_term(label)
    IN IF norm = None THEN None
       ELSE IF norm \in DOMAIN cache THEN cache[norm]
       ELSE None

\* variant: a key that is not found is cached without an id
get_qid_by_unique_key_cacheMiss(pcache, ucache, items, label, property_label_or_id, value) ==
    LET norm_label == normalize_term(label)
        property_id == PropertyInfoOf(pcache, property_label_or_id).id
        norm_value == normalize_unique_value(value)
        key == <<norm_label, property_id, norm_value>>
        found_items == find_items_by_unique_key(items, <<SearchKey(norm_label, norm_value)>>,
                                                property_id)
    IN IF norm_label = None \/ norm_value = None
         THEN [result |-> None, cache |-> ucache]
       ELSE IF key \in DOMAIN ucache
         THEN [result |-> ucache[key], cache |-> ucache]
       ELSE IF found_items.kind = "raised"
         THEN [result |-> "ValueError", cache |-> ucache]
       ELSE IF SearchKey(norm_label, norm_value) \in DOMAIN found_items.result
         THEN [result |-> found_items.result[SearchKey(norm_label, norm_value)],
               cache |-> Put(ucache, key, found_items.result[SearchKey(norm_label, norm_value)])]
       ELSE [result |-> None, cache |-> Put(ucache, key, None)]

get_qid_by_unique_key(pcache, ucache, items, label, property_label_or_id, value) ==
    LET norm_label == normalize_term(label)
        property_id == PropertyInfoOf(pcache, property_label_or_id).id
        norm_value == normalize_unique_value(value)
        key == <<norm_label, property_id, norm_value>>
        found_items == find_items_by_unique_key(items, <<SearchKey(norm_label, norm_value)>>,
                                                property_id)
    IN IF norm_label = None \/ norm_value = None
         THEN [result |-> None, cache |-> ucache]
       ELSE IF key \in DOMAIN ucache
         THEN [result |-> ucache[key], cache |-> ucache]
       ELSE IF found_items.kind = "raised"
         THEN [result |-> "ValueError", cache |-> ucache]
       ELSE IF SearchKey(norm_label, norm_value) \in DOMAIN found_items.result
         THEN [result |-> found_items.result[SearchKey(norm_label, norm_value)],
               cache |-> Put(ucache, key, found_items.result[SearchKey(norm_label, norm_value)])]
       ELSE [result |-> None, cache |-> ucache]

\* a call on the context: a point lookup with its key (label, property,
\* value) and result; ensure_properties with the labels it looked up, its
\* rule and the property cache before it
Lookup(op, label, property, value, result) ==
    [op |-> op, label |-> label, property |-> property, value |-> value,
     result |-> result]

CtxKeys == {SearchKey("a", "v1"), SearchKey(" a ", " v1"), SearchKey("nan", "v1"),
            SearchKey("a", None)}

CtxKeyLists == UNION {[1..n -> CtxKeys] : n \in 0..MaxKeys}

EnsureProperties ==
    /\ ctx_calls < MaxCalls
    /\ \E rule \in MappingRules :
          \E out \in ensure_properties(pid_cache, rule) :
             /\ pid_cache' = out.cache
             /\ last_lookup' = Lookup("ensure_properties", out.looked, rule,
                                      pid_cache,
                                      IF out.raised THEN "ValueError" ELSE None)
    /\ ctx_calls' = ctx_calls + 1
    /\ UNCHANGED <<qid_cache_label, qid_cache_unique>>
    /\ UNCHANGED <<updVarsButCache, procVars, dbVars, searchVars, buildVars, fnVars, bsVars>>

EnsureQidsForLabels ==
    /\ ctx_calls < MaxCalls
    /\ \E labels \in LabelLists, db_ok \in BOOLEAN :
          qid_cache_label' \in ensure_qids_for_labels(qid_cache_label, wb_items,
                                                      labels, db_ok)
    /\ last_lookup' = Lookup("ensure_qids_for_labels", None, None, None, None)
    /\ ctx_calls' = ctx_calls + 1
    /\ UNCHANGED <<pid_cache, qid_cache_unique>>
    /\ UNCHANGED <<updVarsButCache, procVars, dbVars, searchVars, buildVars, fnVars, bsVars>>

EnsureQidsForUniqueKeys ==
    /\ ctx_calls < MaxCalls
    /\ \E keys \in CtxKeyLists :
          LET out == ensure_qids_for_unique_keys(qid_cache_unique, wb_items, keys, "P1")
          IN /\ qid_cache_unique' = out.cache
             /\ last_lookup' = Lookup("ensure_qids_for_unique_keys", None, None, None,
                                      IF out.raised THEN "ValueError" ELSE None)
    /\ ctx_calls' = ctx_calls + 1
    /\ UNCHANGED <<pid_cache, qid_cache_label>>
    /\ UNCHANGED <<updVarsButCache, procVars, dbVars, searchVars, buildVars, fnVars, bsVars>>

GetPropertyInfo ==
    /\ ctx_calls < MaxCalls
    /\ \E lbl \in PropertyLabels :
          /\ last_lookup' = Lookup("get_property_info", None, lbl, None,
                                   PropertyInfoOf(pid_cache, lbl).id)
          /\ pid_cache' = CacheAfterLookup(pid_cache, lbl)
    /\ ctx_calls' = ctx_calls + 1
    /\ UNCHANGED <<qid_cache_label, qid_cache_unique>>
    /\ UNCHANGED <<updVarsButCache, procVars, dbVars, searchVars, buildVars, fnVars, bsVars>>

GetPropertyId ==
    /\ ctx_calls < MaxCalls
    /\ \E lbl \in PropertyLabels \cup {None} :
          /\ last_lookup' = Lookup("get_property_id", None, lbl, None,
                                   get_property_id(pid_cache, lbl))
          /\ pid_cache' = IF lbl = None THEN pid_cache
                          ELSE CacheAfterLookup(pid_cache, lbl)
    /\ ctx_calls' = ctx_calls + 1
    /\ UNCHANGED <<qid_cache_label, qid_cache_unique>>
    /\ UNCHANGED <<updVarsButCache, procVars, dbVars, searchVars, buildVars, fnVars, bsVars>>

GetQidByLabel ==
    /\ ctx_calls < MaxCalls
    /\ \E label \in RequestLabels \cup {None} :
          last_lookup' = Lookup("get_qid_by_label", label, None, None,
                                get_qid_by_label(qid_cache_label, label))
    /\ ctx_calls' = ctx_calls + 1
    /\ UNCHANGED <<pid_cache, qid_cache_label, qid_cache_unique>>
    /\ UNCHANGED <<updVarsButCache, procVars, dbVars, searchVars, buildVars, fnVars, bsVars>>

GetQidByUniqueKey ==
    /\ ctx_calls < MaxCalls
    /\ \E label \in {"a", " a ", "nan", None}, property \in {"L1", "Lx"},
          value \in {"v1", " v1", None} :
          LET out == get_qid_by_unique_key(pid_cache, qid_cache_unique, wb_items,
                                           label, property, value)
          IN /\ last_lookup' = Lookup("get_qid_by_unique_key", label, property, value,
                                      out.result)
             /\ qid_cache_unique' = out.cache
             /\ pid_cache' = CacheAfterLookup(pid_cache, property)
    /\ ctx_calls' = ctx_calls + 1
    /\ UNCHANGED qid_cache_label
    /\ UNCHANGED <<updVarsButCache, procVars, dbVars, searchVars, buildVars, fnVars, bsVars>>

CtxInit ==
    /\ wb_items \in WbStores
    /\ CtxIdle
    /\ UpdIdle /\ pid_cache = EmptyMap
    /\ ProcIdle /\ SearchIdle /\ BuildIdle /\ FnIdle /\ BsIdle

CtxNext ==
    \/ EnsureProperties \/ EnsureQidsForLabels \/ EnsureQidsForUniqueKeys
    \/ GetPropertyInfo \/ GetPropertyId \/ GetQidByLabel \/ GetQidByUniqueKey

SpecCtx == CtxInit /\ [][CtxNext]_vars

\* the calls that read or write the property cache
CtxPropsNext ==
    EnsureProperties \/ GetPropertyInfo \/ GetPropertyId \/ GetQidByUniqueKey

SpecCtxProps == CtxInit /\ [][CtxPropsNext]_vars

\* the calls that read or write the two qid caches
CtxQidsNext ==
    EnsureQidsForLabels \/ EnsureQidsForUniqueKeys \/ GetQidByLabel \/ GetQidByUniqueKey

SpecCtxQids == CtxInit /\ [][CtxQidsNext]_vars

PointLookups == {"get_property_info", "get_property_id", "get_qid_by_label",
                 "get_qid_by_unique_key"}

\* the key of a lookup names something the store holds
KeyInStore(lk) ==
    CASE lk.op \in {"get_property_info", "get_property_id"} ->
            FindPropertyInfo(lk.property).id # NoPid
      [] lk.op = "get_qid_by_label" ->
            \E q \in DOMAIN wb_items : wb_items[q].label = normalize_term(lk.label)
      [] lk.op = "get_qid_by_unique_key" ->
            /\ FindPropertyInfo(lk.property).id = "P1"
            /\ \E q \in DOMAIN wb_items :
                  /\ wb_items[q].label = normalize_term(lk.label)
                  /\ wb_items[q].value # None
                  /\ wb_items[q].value = normalize_unique_value(lk.value)
      [] OTHER -> FALSE

\* what the lookup returns on a context on which no ensure_* call was made
Unprimed(lk) ==
    CASE lk.op = "get_property_info" -> PropertyInfoOf(EmptyMap, lk.property).id
      [] lk.op = "get_property_id" -> get_property_id(EmptyMap, lk.property)
      [] lk.op = "get_qid_by_label" -> get_qid_by_label(EmptyMap, lk.label)
      [] lk.op = "get_qid_by_unique_key" ->
            get_qid_by_unique_key(EmptyMap, EmptyMap, wb_items,
                                  lk.label, lk.property, lk.value).result

\* C10: a point lookup of a key that the store holds returns what it returns
\* on a context that was not primed, and this is not 'not found': on a cache
\* miss the lookup falls back to the search collaborator.
C10_LookupsIgnorePriming ==
    (last_lookup.op \in PointLookups /\ KeyInStore(last_lookup)) =>
        /\ last_lookup.result = Unprimed(last_lookup)
        /\ last_lookup.result # None

\* ------------------------------------------------------------------------
\* Failures of the store query behind a search
\* ------------------------------------------------------------------------
\* the last search call reached the store: it had a label or key to ask for
QueryIssued ==
    CASE search_call.op = "labels" -> NormalizedLabels(search_call.labels) # <<>>
      [] search_call.op = "label_and_snak" -> NormalizedKeys(search_call.keys) # <<>>
      [] OTHER -> FALSE

\* C16: when the store query behind a search operation fails, the failure
\* reaches the caller as an exception; the search does not return a result
\* (an empty map, or 'no entity found' for the keys asked for).
C16_QueryFailureRaises ==
    (QueryIssued /\ ~search_call.db_ok) => search_outcome.kind # "returned"

\* ========================================================================
\* ValueResolver, ClaimBuilder and CreateItemsStep, call by call
\* ========================================================================
MaxBuildCalls == 1

\* A ValueSpec by its form: "none" (None), "str" (the bare string arg),
\* "column" ({column: arg}), "value" ({value: arg}), "label" ({label: arg}),
\* "dict" (a dict with none of the three keys) and "list"
\* ([{column: arg}, {value: " "}]).
ValueSpec(form, arg) == [form |-> form, arg |-> arg]

\* context.get_qid(label) as resolve calls it: the qid the context holds for
\* the label, None if it holds none
get_qid(cache, label) == get_qid_by_label(cache, label)

Resolved(value) == [kind |-> "ok", value |-> value]

ResolveRaises(exc) == [kind |-> exc, value |-> None]

\* row[column] on the row (a pandas Series): KeyError for a missing column
RowCell(row, column) ==
    IF column \in DOMAIN row.cells THEN Resolved(row.cells[column])
    ELSE ResolveRaises("KeyError")

\* resolve_element of resolve, for an element that is a string or a dict
resolve_element(elem, row, datatype, cache) ==
    CASE elem.form = "str"    -> RowCell(row, elem.arg)
      [] elem.form = "column" -> RowCell(row, elem.arg)
      [] elem.form = "value"  -> Resolved(elem.arg)
      [] elem.form = "label"  ->
            IF datatype = "wikibase-item" /\ get_qid(cache, elem.arg) # None
            THEN Resolved(get_qid(cache, elem.arg))
            ELSE Resolved(elem.arg)
      [] OTHER                -> ResolveRaises("ValueError")

\* variant: an unresolved label resolves to None
resolve_noFallback(value_spec, row, datatype, cache) ==
    LET resolved == resolve_element(value_spec, row, datatype, cache)
    IN IF value_spec.form \in {"none", "list"} THEN ResolveRaises("ValueError")
       ELSE IF resolved.kind = "ok" /\ datatype = "wikibase-item"
       THEN Resolved(get_qid(cache, resolved.value))
       ELSE resolved

\* ValueResolver.resolve; every value of the model is a str
resolve(value_spec, row, datatype, cache) ==
    IF value_spec.form = "none" THEN ResolveRaises("ValueError")
    ELSE IF value_spec.form = "list"
      THEN LET first == resolve_element(ValueSpec("column", value_spec.arg),
                                        row, datatype, cache)
           IN IF first.kind # "ok" THEN first
              ELSE [kind |-> "tuple", value |-> " "]
    ELSE LET resolved == resolve_element(value_spec, row, datatype, cache)
         IN IF /\ resolved.kind = "ok"
               /\ datatype = "wikibase-item"
               /\ get_qid(cache, resolved.value) # None
            THEN Resolved(get_qid(cache, resolved.value))
            ELSE resolved

\* _extract_template_columns and _render_template for the bare strings of
\* the model: "t{a}" is the text t followed by the placeholder of column a
render_template(template, row) ==
    IF template = "t{a}"
    THEN "t" \o (IF "a" \in DOMAIN row.cells
                 THEN (IF normalize_term(row.cells["a"]) = None THEN ""
                       ELSE normalize_term(row.cells["a"]))
                 ELSE "")
    ELSE template

\* ------------------------------------------------------------------------
\* Inputs of the calls
\* ------------------------------------------------------------------------
Datatypes == {"string", "wikibase-item"}

CellValues == {"a", " a ", "v1"}

SpecArgs == {"a", "lit", "t{a}"}

ResolveSpecs ==
    {ValueSpec("none", None), ValueSpec("dict", None), ValueSpec("list", "a")}
    \cup {ValueSpec(form, arg) : form \in {"str", "column", "value", "label"},
                                 arg \in SpecArgs}

ResolveRows ==
    {Row(None, FALSE, None, "x", None, None, cells) :
        cells \in [{"a"} -> CellValues] \cup {EmptyMap}}

\* the label cache of the context: empty, or primed with the label a
QidCaches == {EmptyMap, [l \in {"a"} |-> "Q1"]}

\* a call of ValueResolver.resolve
Resolve ==
    /\ build_calls < MaxBuildCalls
    /\ \E value_spec \in ResolveSpecs, row \in ResolveRows, datatype \in Datatypes :
          LET r == resolve(value_spec, row, datatype, qid_cache_label)
          IN /\ cb_call' = BuildCall("resolve", value_spec, datatype, NoBuild.item,
                                     <<row>>, <<>>)
             /\ cb_result' = BuildResult(r.kind, r.value, EmptyMap, <<>>, <<>>)
    /\ build_calls' = build_calls + 1
    /\ UNCHANGED <<updVars, procVars, dbVars, searchVars, ctxVars, fnVars, bsVars>>

\* ------------------------------------------------------------------------
\* ClaimBuilder.apply_statements and CreateItemsStep.run
\* ------------------------------------------------------------------------
\* apply_statements(item, row, statements, context) on the item's claims:
\* the loop "for statement in statements" with build_claim and
\* item["claims"].update(claim_dict)
apply_statements(claims, row, statements, cache) ==
    RunStatements("replace_all",
                  [claims |-> claims, cache |-> cache, status |-> "ok",
                   kept |-> 0, appended |-> 0, ops |-> <<>>],
                  statements, row)

\* entity(labels={}, aliases={}, descriptions={}, claims={}, etype="item")
NewEntity == Entity(None, None, None, EmptyMap)

\* the loop over the rows of CreateItemsStep.run; acc carries the list
\* items, the property cache and the outcome so far
RECURSIVE CreateItems(_, _, _)
CreateItems(acc, rows, statements) ==
    IF rows = <<>> \/ acc.status = "raise" THEN acc
    ELSE LET item == set_labels_and_descriptions(NewEntity, Head(rows))
         IN CHOOSE r \in
               { CreateItems([status |-> a.status,
                              cache |-> a.cache,
                              items |-> IF a.status = "raise" THEN acc.items
                                        ELSE Append(acc.items,
                                                    [item EXCEPT !.claims = a.claims])],
                             Tail(rows), statements) :
                 a \in {apply_statements(item.claims, Head(rows), statements,
                                         acc.cache)} } : TRUE

\* BatchMixin._flush_items(items, new): the batch call made, if any, and the
\* list items afterwards
flush_items(items, new) ==
    [calls |-> IF items = <<>> THEN <<>> ELSE <<[items |-> items, new |-> new]>>,
     items |-> <<>>]

\* variant: the documents built so far are flushed although a row raised
CreateItemsStep_run_flushOnRaise(rows, rule, cache) ==
    IF rows = <<>>
    THEN [status |-> "ok", cache |-> cache, calls |-> <<>>, items |-> <<>>]
    ELSE CHOOSE out \in
           { [status |-> r.status, cache |-> r.cache,
              calls |-> flush_items(r.items, TRUE).calls,
              items |-> flush_items(r.items, TRUE).items] :
             r \in {CreateItems([status |-> "ok", cache |-> cache, items |-> <<>>],
                                rows, statements_with_snak(rule))} } : TRUE

\* CreateItemsStep.run(dataframe, mapping_rule, context)
CreateItemsStep_run(rows, rule, cache) ==
    IF rows = <<>>
    THEN [status |-> "ok", cache |-> cache, calls |-> <<>>, items |-> <<>>]
    ELSE CHOOSE out \in
           { IF r.status = "raise"
             THEN [status |-> "raise", cache |-> r.cache, calls |-> <<>>,
                   items |-> r.items]
             ELSE [status |-> "ok", cache |-> r.cache,
                   calls |-> flush_items(r.items, TRUE).calls,
                   items |-> flush_items(r.items, TRUE).items] :
             r \in {CreateItems([status |-> "ok", cache |-> cache, items |-> <<>>],
                                rows, statements_with_snak(rule))} } : TRUE

\* the statement lists of the mapping rules, and their statements
StatementLists == {statements_with_snak(rule) : rule \in MappingRules}

BuildStatements == UNION {Range(statements) : statements \in StatementLists}

\* rows with the columns a and b, and a row without the column b
BuildRows ==
    {Row(None, FALSE, None, "x", None, None, cells) :
        cells \in [{"a", "b"} -> Values] \cup {[c \in {"a"} |-> "v1"]}}

CreateRows ==
    {Row(None, FALSE, None, "x", None, None, [c \in {"a", "b"} |-> "v1"]),
     Row(None, FALSE, "y", "x", None, "d", [c \in {"a", "b"} |-> "v2"]),
     Row(None, FALSE, None, "x", None, None, [c \in {"a"} |-> "v1"])}

CreateRowLists == UNION {[1..n -> CreateRows] : n \in 0..MaxRows}

\* a call of ClaimBuilder.build_claim
BuildOneClaim ==
    /\ build_calls < MaxBuildCalls
    /\ \E statement \in BuildStatements, row \in BuildRows :
          LET b == BuildClaim(pid_cache, statement, row)
          IN /\ cb_call' = BuildCall("build_claim", NoBuild.value_spec, None,
                                     NoBuild.item, <<row>>, <<statement>>)
             /\ cb_result' = BuildResult(b.status, None,
                                         IF b.status = "ok"
                                         THEN Put(EmptyMap, b.pid, <<b.claim>>)
                                         ELSE EmptyMap,
                                         <<>>, <<>>)
             /\ pid_cache' = CacheAfterLookups(pid_cache, b.looked)
    /\ build_calls' = build_calls + 1
    /\ UNCHANGED <<updVarsButCache, procVars, dbVars, searchVars, ctxVars, fnVars, bsVars>>

\* a call of ClaimBuilder.apply_statements on a stored document
ApplyStatements ==
    /\ build_calls < MaxBuildCalls
    /\ \E item \in StoredDocs, row \in BuildRows, statements \in StatementLists :
          LET a == apply_statements(item.claims, row, statements, pid_cache)
          IN /\ cb_call' = BuildCall("apply_statements", NoBuild.value_spec, None,
                                     item, <<row>>, statements)
             /\ cb_result' = BuildResult(a.status, None, a.claims, a.ops, <<>>)
             /\ pid_cache' = a.cache
    /\ build_calls' = build_calls + 1
    /\ UNCHANGED <<updVarsButCache, procVars, dbVars, searchVars, ctxVars, fnVars, bsVars>>

\* a call of CreateItemsStep.run
CreateItemsRun ==
    /\ build_calls < MaxBuildCalls
    /\ \E rows \in CreateRowLists, rule \in MappingRules :
          \E r \in {CreateItemsStep_run(rows, rule, pid_cache)} :
             /\ cb_call' = BuildCall("create", NoBuild.value_spec, None,
                                     NoBuild.item, rows,
                                     statements_with_snak(rule))
             /\ cb_result' = [BuildResult(r.status, None, EmptyMap, <<>>, r.calls)
                                EXCEPT !.items = r.items]
             /\ pid_cache' = r.cache
    /\ build_calls' = build_calls + 1
    /\ UNCHANGED <<updVarsButCache, procVars, dbVars, searchVars, ctxVars, fnVars, bsVars>>

\* the property cache of the context: empty, or primed with L1 and L2
PidCaches == {EmptyMap, CacheAfterLookups(EmptyMap, <<"L1", "L2">>)}

BuildInit ==
    /\ BuildIdle /\ FnIdle /\ BsIdle
    /\ UpdIdle /\ pid_cache \in PidCaches
    /\ ProcIdle /\ DbIdle /\ SearchIdle
    /\ qid_cache_label \in QidCaches
    /\ qid_cache_unique = EmptyMap
    /\ ctx_calls = 0
    /\ last_lookup = NoLookup

BuildNext == Resolve \/ BuildOneClaim \/ ApplyStatements \/ CreateItemsRun

SpecBuild == BuildInit /\ [][BuildNext]_vars

\* ------------------------------------------------------------------------
\* Properties of ValueResolver, ClaimBuilder and CreateItemsStep
\* ------------------------------------------------------------------------
\* the row and the cells of the last call
CallRow == cb_call.rows[1]

\* the last call is resolve of a reference to a column the row has
ColumnRef ==
    /\ cb_call.op = "resolve"
    /\ cb_call.value_spec.form \in {"str", "column"}
    /\ cb_call.value_spec.arg \in DOMAIN CallRow.cells

CallCell == CallRow.cells[cb_call.value_spec.arg]

\* C11: resolve of a column reference (bare column name or {column: c}) with
\* datatype wikibase-item returns the entity id that the context holds for
\* the cell's label when it holds one, and the cell's raw string otherwise;
\* it does not raise and does not return None.
C11_ColumnItemValue ==
    (ColumnRef /\ cb_call.datatype = "wikibase-item") =>
        /\ cb_result.status = "ok"
        /\ cb_result.value # None
        /\ cb_result.value =
              IF normalize_term(CallCell) \in DOMAIN qid_cache_label
              THEN qid_cache_label[normalize_term(CallCell)]
              ELSE CallCell

\* an unresolved label on a primed context comes back as the raw string
C11_Witness ==
    /\ ColumnRef
    /\ cb_call.datatype = "wikibase-item"
    /\ qid_cache_label # EmptyMap
    /\ CallCell = "v1"
    /\ cb_result.value = "v1"

\* C12: resolve of a bare-string ValueSpec returns the row's cell when the
\* string names a column of the row, and otherwise the string rendered as a
\* literal/template against the row; it does not fail.
C12_BareString ==
    (/\ cb_call.op = "resolve"
     /\ cb_call.value_spec.form = "str"
     /\ cb_call.datatype = "string") =>
        /\ cb_result.status = "ok"
        /\ cb_result.value =
              IF cb_call.value_spec.arg \in DOMAIN CallRow.cells
              THEN CallRow.cells[cb_call.value_spec.arg]
              ELSE render_template(cb_call.value_spec.arg, CallRow)

\* the part of C12 that the code keeps: a bare string that names a column
\* of the row resolves to the cell
C12_BareColumn ==
    (ColumnRef /\ cb_call.value_spec.form = "str" /\ cb_call.datatype = "string") =>
        /\ cb_result.status = "ok"
        /\ cb_result.value = CallCell

\* C13: resolve of a {value: v} spec returns v itself, for every datatype and
\* every state of the resolution caches.
C13_ValuePassthrough ==
    (cb_call.op = "resolve" /\ cb_call.value_spec.form = "value") =>
        /\ cb_result.status = "ok"
        /\ cb_result.value = cb_call.value_spec.arg

\* the part of C13 that the code keeps: passthrough for the other datatypes
C13_ValuePassthroughString ==
    (/\ cb_call.op = "resolve"
     /\ cb_call.value_spec.form = "value"
     /\ cb_call.datatype # "wikibase-item") =>
        /\ cb_result.status = "ok"
        /\ cb_result.value = cb_call.value_spec.arg

\* the statement of the last build_claim call
CallStatement == cb_call.statements[1]

\* C14: build_claim returns None and does not raise when the statement's
\* property cannot be resolved to a property id.
C14_UnknownPropertySkipped ==
    (/\ cb_call.op = "build_claim"
     /\ FindPropertyInfo(CallStatement.property).id = NoPid) =>
        cb_result.status = "none"

\* C15: build_claim returns None without raising whenever resolving the
\* statement's value raises (no value spec, an invalid dict, or a column
\* that the row does not have).
C15_UnresolvableValueSkipped ==
    (/\ cb_call.op = "build_claim"
     /\ FindPropertyInfo(CallStatement.property).id # NoPid
     /\ ResolveValue(CallStatement.value, CallRow).kind \in {"ValueError", "KeyError"}) =>
        /\ cb_result.status = "none"
        /\ cb_result.claims = EmptyMap

\* the part of C15 that the code keeps: a ValueError of the resolution
C15_ValueErrorSkipped ==
    (/\ cb_call.op = "build_claim"
     /\ FindPropertyInfo(CallStatement.property).id # NoPid
     /\ ResolveValue(CallStatement.value, CallRow).kind = "ValueError") =>
        /\ cb_result.status = "none"
        /\ cb_result.claims = EmptyMap

\* the documents CreateItemsStep.run is to submit for the rows of the call
ExpectedNewItems ==
    [i \in DOMAIN cb_call.rows |->
        [set_labels_and_descriptions(NewEntity, cb_call.rows[i]) EXCEPT
            !.claims = apply_statements(EmptyMap, cb_call.rows[i],
                                        cb_call.statements, EmptyMap).claims]]

OneCreateCall ==
    IF cb_call.rows = <<>> THEN cb_result.calls = <<>>
    ELSE /\ cb_result.status = "ok"
         /\ Len(cb_result.calls) = 1
         /\ cb_result.calls[1].new = TRUE
         /\ cb_result.calls[1].items = ExpectedNewItems
         /\ \A i \in DOMAIN ExpectedNewItems : ExpectedNewItems[i].id = None
         /\ cb_result.items = <<>>

\* C19: CreateItemsStep.run on a non-empty set of rows issues exactly one
\* bulk create call (new = true) holding one document per input row in input
\* order, each built from an empty claim set and without an entity id, and
\* the batch is empty afterwards; on an empty set of rows no call is issued.
C19_CreateOneCall == cb_call.op = "create" => OneCreateCall

\* the part of C19 that the code keeps: the runs in which no statement raises
C19_CreateOneCallUnlessRaise ==
    (cb_call.op = "create" /\ cb_result.status # "raise") => OneCreateCall

\* the properties for which a statement of the last call built a claim
BuiltPids == {cb_result.ops[i].pid : i \in DOMAIN cb_result.ops}

\* C20: after apply_statements has returned, every property for which a
\* statement built a claim holds the one-element list of the claim of the
\* last such statement, and the claim lists of all other properties are as
\* before the call.
C20_ApplyStatements ==
    (cb_call.op = "apply_statements" /\ cb_result.status = "ok") =>
        /\ DOMAIN cb_result.claims = (DOMAIN cb_call.item.claims) \cup BuiltPids
        /\ \A i \in DOMAIN cb_result.ops :
              (\A j \in DOMAIN cb_result.ops :
                  cb_result.ops[j].pid = cb_result.ops[i].pid => j <= i)
              => cb_result.claims[cb_result.ops[i].pid] = <<cb_result.ops[i].new>>
        /\ \A p \in (DOMAIN cb_call.item.claims) \ BuiltPids :
              cb_result.claims[p] = cb_call.item.claims[p]

\* two statements built different claims of one property, the document held
\* a claim of it before, and another property of the document is untouched
C20_Witness ==
    /\ cb_call.op = "apply_statements"
    /\ cb_result.status = "ok"
    /\ \E i, j \in DOMAIN cb_result.ops :
          /\ i < j
          /\ cb_result.ops[i].pid = cb_result.ops[j].pid
          /\ cb_result.ops[i].new # cb_result.ops[j].new
          /\ cb_result.ops[i].pid \in DOMAIN cb_call.item.claims
    /\ (DOMAIN cb_call.item.claims) \ BuiltPids # {}

\* ========================================================================
\* Successive runs (chunks) of one update strategy instance
\* ========================================================================
\* the caller takes the next chunk of the dataframe: run() has returned or
\* raised, rows are left, and run() is called again on the same instance
NextRun ==
    /\ pc \in {"done", "failed"}
    /\ Len(rows_log) < MaxRows
    /\ pc' = "idle"
    /\ nrows' = 0
    /\ idx' = 0
    /\ kept_claims' = 0
    /\ appended_claims' = 0
    /\ lastRow' = NoRow
    /\ lastQid' = None
    /\ lastOps' = <<>>
    /\ contributed' = EmptyMap
    /\ fetched' = EmptyMap
    /\ UNCHANGED <<strategy, mapping_rule, store, pid_cache, working_items,
                   working_order, batches, rows_log, store0>>
    /\ UNCHANGED notUpdVars

ChunkNext == StartRun \/ ProcessRow \/ FinishRun \/ NextRun

\* the chunked runs start from a store whose Q1 has no claims or has a
\* qualified and referenced claim
ChunkInit ==
    /\ UpdInit
    /\ \/ store["Q1"].claims = EmptyMap
       \/ \E i \in DOMAIN store["Q1"].claims["P1"] : store["Q1"].claims["P1"][i].hasQ

SpecChunk == ChunkInit /\ [][ChunkNext]_vars

\* the document a run over the single row submits for the row's entity,
\* whose stored document is base
OneRowDoc(strat, rule, base, row) ==
    LET item0 == set_labels_and_descriptions(base, row)
        acc == RunStatements(strat,
                             [claims |-> RowBaseClaims(strat, item0),
                              cache |-> EmptyMap, status |-> "ok",
                              kept |-> 0, appended |-> 0, ops |-> <<>>],
                             statements_with_snak(rule), row)
    IN [item0 EXCEPT !.claims = acc.claims]

\* the rows iterated so far that had a working item
Targeting == {i \in DOMAIN rows_log : rows_log[i].qid # None}

\* they target pairwise distinct entity ids
DistinctTargets ==
    \A i, j \in Targeting : rows_log[i].qid = rows_log[j].qid => i = j

\* the places (batch, position) of the documents submitted for qid so far
Submitted(qid) ==
    {bk \in {<<b, k>> : b \in DOMAIN batches, k \in 1..MaxRows} :
        /\ bk[2] \in DOMAIN batches[bk[1]].items
        /\ batches[bk[1]].items[bk[2]].id = qid}

\* every row that was processed had one document submitted, the one that the
\* run over this row alone submits, and nothing else was submitted
SplitIndependent ==
    /\ \A i \in Targeting :
          rows_log[i].done =>
             LET qid == rows_log[i].qid
                 doc == OneRowDoc(strategy, mapping_rule,
                                  IF qid \in DOMAIN store0 THEN store0[qid]
                                  ELSE RowItem,
                                  rows_log[i].row)
             IN /\ Cardinality(Submitted(qid)) = 1
                /\ \A bk \in Submitted(qid) : batches[bk[1]].items[bk[2]] = doc
                /\ qid \in DOMAIN store
                /\ store[qid] = doc
    /\ \A b \in DOMAIN batches : \A k \in DOMAIN batches[b].items :
          \E i \in Targeting : /\ rows_log[i].done
                               /\ rows_log[i].qid = batches[b].items[k].id

FreshFetch(qid) == IF qid \in DOMAIN store THEN store[qid] ELSE RowItem

C18_State ==
    /\ (pc = "rows" /\ idx = 0) => working_items = EmptyMap
    /\ pc = "done" => working_items = EmptyMap
    /\ pc = "rows" =>
          \A qid \in DOMAIN working_items :
              /\ qid \in DOMAIN fetched
              /\ fetched[qid] = FreshFetch(qid)

C18_Step ==
    IF pc = "rows" /\ pc' = "done" /\ working_items # EmptyMap
    THEN /\ Len(batches') = Len(batches) + 1
         /\ LET items == batches'[Len(batches')].items
            IN /\ Len(items) = Cardinality(DOMAIN working_items)
               /\ \A qid \in DOMAIN working_items :
                     \E i \in DOMAIN items : items[i] = working_items[qid]
    ELSE batches' = batches

MergeStrategies == {"merge_refs_or_append", "merge_qualifiers_or_append"}

\* the working document after one more iteration of the loop of run() over
\* row, on the working document item
AfterRow(item, row) ==
    LET item0 == set_labels_and_descriptions(item, row)
        acc == RunStatements(strategy,
                             [claims |-> RowBaseClaims(strategy, item0),
                              cache |-> pid_cache, status |-> "ok",
                              kept |-> 0, appended |-> 0, ops |-> <<>>],
                             statements_with_snak(mapping_rule), row)
    IN [item0 EXCEPT !.claims = acc.claims]

\* C22: for the two merge strategies, a row processed a second time against
\* the working document it has already been processed against leaves the
\* document as it is: no claim, qualifier snak or reference block is added.
C22_MergeIdempotent ==
    (/\ strategy \in MergeStrategies
     /\ pc = "rows"
     /\ lastQid # None) =>
        AfterRow(working_items[lastQid], lastRow) = working_items[lastQid]

\* a row whose claim was merged into a stored claim, to which it added a
\* qualifier
C22_Witness ==
    /\ strategy = "merge_qualifiers_or_append"
    /\ pc = "rows"
    /\ lastQid = "Q1"
    /\ "P1" \in DOMAIN fetched["Q1"].claims
    /\ "P1" \in DOMAIN working_items["Q1"].claims
    /\ Len(working_items["Q1"].claims["P1"]) = Len(fetched["Q1"].claims["P1"])
    /\ working_items["Q1"].claims["P1"] # fetched["Q1"].claims["P1"]
    /\ \E i \in DOMAIN working_items["Q1"].claims["P1"] :
          working_items["Q1"].claims["P1"][i].qualifiers
              # fetched["Q1"].claims["P1"][i].qualifiers

\* the claims of property p with mainsnak value v
ClaimsOf(claims, p, v) ==
    {claims[p][i] : i \in {j \in DOMAIN claims[p] : claims[p][j].mainsnak.value = v}}

\* what a document holds up to list order: for each property and mainsnak
\* value, the set of qualifier snaks per qualifier property and the set of
\* reference blocks
UpToOrder(claims) ==
    [pv \in UNION {{<<p, claims[p][i].mainsnak.value>> : i \in DOMAIN claims[p]} :
                    p \in DOMAIN claims} |->
        LET cs == ClaimsOf(claims, pv[1], pv[2])
        IN [qualifiers |->
              [qp \in UNION {DOMAIN c.qualifiers : c \in cs} |->
                  UNION {Range(GetOr(c.qualifiers, qp, <<>>)) : c \in cs}],
            references |-> UNION {Range(c.references) : c \in cs}]]

\* C26: for the two merge strategies the result of a run does not depend on
\* the order of two rows of one entity, up to list order: both orders give,
\* for each property and mainsnak value, the same set of qualifier snaks per
\* qualifier property and the same set of reference blocks.
C26_RowOrderIrrelevant ==
    (/\ strategy \in MergeStrategies
     /\ pc = "rows"
     /\ Len(rows_log) = 2
     /\ rows_log[1].qid # None
     /\ rows_log[1].qid = rows_log[2].qid) =>
        LET qid == rows_log[1].qid
            swapped == AfterRow(AfterRow(fetched[qid], rows_log[2].row),
                                rows_log[1].row)
        IN UpToOrder(working_items[qid].claims) = UpToOrder(swapped.claims)

\* two rows of Q1 with different qualifier values for one mainsnak value
\* were merged, and the two orders give documents that differ in list order
C26_Witness ==
    /\ strategy = "merge_qualifiers_or_append"
    /\ pc = "rows"
    /\ Len(rows_log) = 2
    /\ rows_log[1].qid = "Q1"
    /\ rows_log[2].qid = "Q1"
    /\ rows_log[1].row.cells # rows_log[2].row.cells
    /\ AfterRow(AfterRow(fetched["Q1"], rows_log[2].row), rows_log[1].row).claims
          # working_items["Q1"].claims

\* ------------------------------------------------------------------------
\* One run of a step that writes: an update strategy on a store, or
\* CreateItemsStep, which reads no stored document
\* ------------------------------------------------------------------------
WriteInit == UpdInit \/ BuildInit

\* CreateItemsStep.run as the step of the mapping, run once
CreateStepRun ==
    /\ store = EmptyMap
    /\ pc = "idle"
    /\ cb_call = NoBuild
    /\ CreateItemsRun

WriteNext == StartRun \/ ProcessRow \/ FinishRun \/ CreateStepRun

SpecWrite == WriteInit /\ [][WriteNext]_vars

\* every row of the run of the update strategy was processed without error
AllRowsDone ==
    /\ idx = nrows
    /\ \A i \in DOMAIN rows_log : rows_log[i].done

\* the run of the update strategy: nothing is submitted, and the store is as
\* before, unless the run has returned; it submits at most one batch
UpdateRunWrites ==
    /\ Len(batches) <= 1
    /\ pc \in {"idle", "rows", "failed"} => batches = <<>> /\ store = store0
    /\ batches # <<>> => pc = "done" /\ AllRowsDone

\* the run of CreateItemsStep: at most one call; none if a row raised; a
\* call holds a document for every row
CreateRunWrites ==
    cb_call.op = "create" =>
        /\ Len(cb_result.calls) <= 1
        /\ cb_result.status = "raise" => cb_result.calls = <<>>
        /\ cb_result.calls # <<>> =>
              /\ cb_result.status = "ok"
              /\ Len(cb_result.calls[1].items) = Len(cb_call.rows)

\* C28: a run of an update strategy or of CreateItemsStep writes
\* all-or-nothing: the bulk write is called at most once per run and only
\* after every row of the run was processed without error; if processing a
\* row raises, no document of the run has been submitted, not even those of
\* the rows processed before the failing row.
C28_AllOrNothing == UpdateRunWrites /\ CreateRunWrites

\* CreateItemsStep.run raised at a row after it had built the documents of
\* the rows before it
C28_Witness ==
    /\ cb_call.op = "create"
    /\ cb_result.status = "raise"
    /\ cb_result.items # <<>>
    /\ cb_result.calls = <<>>

\* a run of an update strategy raised at a row after it had changed the
\* working document of the row's entity
C28_UpdateRaised ==
    /\ pc = "failed"
    /\ lastQid \in DOMAIN working_items
    /\ lastQid \in DOMAIN store
    /\ working_items[lastQid] # store[lastQid]

\* ------------------------------------------------------------------------
\* Properties of the context's caches
\* ------------------------------------------------------------------------
\* the labels of the rule of the last ensure_properties call that were not
\* cached before it and name no property
UnresolvedLabels ==
    {l \in PropertyLabelsOf(last_lookup.property) \ DOMAIN last_lookup.value :
        FindPropertyInfo(l).id = NoPid}

\* C24: ensure_properties raises ValueError when a property label of the
\* rule's statements, qualifiers, references or snak matcher cannot be
\* resolved, at the first such label it looks up; it writes no cache entry
\* for an unresolved label, leaves the entries cached before the call as they
\* were, and does not look up a label that is already cached.
C24_EnsureProperties ==
    last_lookup.op = "ensure_properties" =>
        /\ (last_lookup.result = "ValueError") <=> (UnresolvedLabels # {})
        /\ Cardinality(last_lookup.label \cap UnresolvedLabels) <= 1
        /\ \A l \in DOMAIN pid_cache : pid_cache[l].id # NoPid
        /\ UnresolvedLabels \cap DOMAIN pid_cache = {}
        /\ \A l \in DOMAIN last_lookup.value :
              l \in DOMAIN pid_cache /\ pid_cache[l] = last_lookup.value[l]
        /\ last_lookup.label \cap DOMAIN last_lookup.value = {}

\* ensure_properties raised on a cache that held an entry, after it had
\* resolved and cached another label of the rule
C24_Witness ==
    /\ last_lookup.op = "ensure_properties"
    /\ last_lookup.result = "ValueError"
    /\ DOMAIN last_lookup.value # {}
    /\ DOMAIN pid_cache # DOMAIN last_lookup.value

\* the labels / (label, value) pairs of a request that no item of the store
\* carries once they are normalized
LabelsNotFound(labels) ==
    \A i \in DOMAIN labels :
        \A q \in DOMAIN wb_items : wb_items[q].label # normalize_term(labels[i])

KeysNotFound(keys) ==
    \A i \in DOMAIN keys :
        \A q \in DOMAIN wb_items :
            \/ wb_items[q].label # normalize_term(keys[i].label)
            \/ wb_items[q].value = None
            \/ wb_items[q].value # normalize_unique_value(keys[i].value)

QualLists ==
    { <<>>,
      <<Snak("Pq1", "v1")>>,
      <<Snak("Pq1", "v2")>>,
      <<Snak("Pq2", "v1")>>,
      <<Snak("Pq1", "v1"), Snak("Pq1", "v2")>>,
      <<Snak("Pq1", "v1"), Snak("Pq2", "v1")>>,
      <<Snak("Pq2", "v1"), Snak("Pq1", "v1")>> }

ClaimIds == {"", "Q1$a", "Q1$b"}

\* claims whose "qualifiers" and "qualifiers-order" agree
ConsistentClaims ==
    {StoredClaim("P1", v, quals, <<>>, id) :
        v \in Values, quals \in QualLists, id \in ClaimIds}

\* claims with a "qualifiers" key missing from "qualifiers-order", and with
\* an entry of "qualifiers-order" missing from "qualifiers"
InconsistentClaims ==
    { [StoredClaim("P1", "v1", <<Snak("Pq1", "v1")>>, <<>>, "") EXCEPT !.qorder = <<>>],
      [StoredClaim("P1", "v1", <<Snak("Pq1", "v1")>>, <<>>, "")
          EXCEPT !.qualifiers = EmptyMap] }

HelperClaims == ConsistentClaims \cup InconsistentClaims

\* _mainsnak_values_equal and _qualifiers_equal applied to two claims
MatchClaims ==
    /\ fn_call.op = "match"
    /\ ~fn_result.done
    /\ fn_result' = Returns(MergeRefsMatch(fn_call.a, fn_call.b))
    /\ UNCHANGED fn_call
    /\ UNCHANGED <<updVars, procVars, dbVars, searchVars, ctxVars, buildVars, bsVars>>

\* ------------------------------------------------------------------------
\* _normalize_unique_value on texts (context.py, raisewikibase.py)
\* ------------------------------------------------------------------------
\* longest text normalised
MaxTextLen == 4

\* a text is the sequence of its characters
Chars == {"+", "5", "0", ".", " ", "a"}

Digits == {"5", "0"}

Texts == UNION {[1..n -> Chars] : n \in 0..MaxTextLen}

\* str.strip(): without leading and trailing blanks
Strip(text) ==
    LET inked == {i \in DOMAIN text : text[i] # " "}
    IN IF inked = {} THEN <<>>
       ELSE SubSeq(text,
                   CHOOSE i \in inked : \A j \in inked : i <= j,
                   CHOOSE i \in inked : \A j \in inked : j <= i)

RECURSIVE StripLeadingZeros(_)
StripLeadingZeros(digits) ==
    IF digits # <<>> /\ Head(digits) = "0" THEN StripLeadingZeros(Tail(digits))
    ELSE digits

RECURSIVE StripTrailingZeros(_)
StripTrailingZeros(digits) ==
    IF digits # <<>> /\ digits[Len(digits)] = "0"
    THEN StripTrailingZeros(SubSeq(digits, 1, Len(digits) - 1))
    ELSE digits

\* float(text): blanks around, an optional sign, digits with at most one
\* point and at least one digit; ok is FALSE where float raises ValueError.
\* The number is given by its sign, its integer digits without leading
\* zeros and its fraction digits without trailing zeros.
ParseFloat(text) ==
    LET s == Strip(text)
        signed == s # <<>> /\ s[1] \in {"+", "-"}
        body == IF signed THEN Tail(s) ELSE s
        points == {i \in DOMAIN body : body[i] = "."}
        point == IF points = {} THEN Len(body) + 1 ELSE CHOOSE i \in points : TRUE
        ok == /\ \A i \in DOMAIN body : body[i] \in Digits \cup {"."}
              /\ Cardinality(points) <= 1
              /\ \E i \in DOMAIN body : body[i] \in Digits
    IN IF ok
       THEN [ok |-> TRUE,
             neg |-> signed /\ s[1] = "-",
             int |-> StripLeadingZeros(SubSeq(body, 1, point - 1)),
             frac |-> StripTrailingZeros(SubSeq(body, point + 1, Len(body)))]
       ELSE [ok |-> FALSE, neg |-> FALSE, int |-> <<>>, frac |-> <<>>]

\* str(int(numeric)) if numeric.is_integer() else str(numeric), for the
\* numbers of the texts above (str(float) is in fixed notation for them)
FormatNumber(number) ==
    LET int == IF number.int = <<>> THEN <<"0">> ELSE number.int
        sign == IF number.neg /\ (number.int # <<>> \/ number.frac # <<>>)
                THEN <<"-">> ELSE <<>>
    IN IF number.frac = <<>> THEN sign \o int
       ELSE sign \o int \o <<".">> \o number.frac

\* the value returned: None, or a text
NoText == [none |-> TRUE, text |-> <<>>]

TextOrNone(text) == IF text = <<>> THEN NoText ELSE [none |-> FALSE, text |-> text]

\* _normalize_unique_value(value, datatype) for a str value
normalize_unique_text(value, datatype) ==
    IF datatype = "quantity"
    THEN LET normalized == IF value # <<>> /\ value[1] = "+" THEN Tail(value)
                           ELSE value
             numeric == ParseFloat(normalized)
         IN TextOrNone(Strip(IF numeric.ok THEN FormatNumber(numeric)
                             ELSE normalized))
    ELSE TextOrNone(Strip(value))

\* variant: the sign is removed after the conversion has failed, too
normalize_unique_text_allSigns(value, datatype) ==
    LET once == normalize_unique_text(value, datatype)
    IN IF datatype = "quantity" /\ ~once.none /\ once.text[1] = "+"
       THEN normalize_unique_text(once.text, datatype)
       ELSE once

\* _normalize_unique_value applied to a text
NormalizeUniqueValue ==
    /\ fn_call.op = "normalize"
    /\ ~fn_result.done
    /\ fn_result' = Returns(normalize_unique_text(fn_call.a, fn_call.datatype))
    /\ UNCHANGED fn_call
    /\ UNCHANGED <<updVars, procVars, dbVars, searchVars, ctxVars, buildVars, bsVars>>

\* the applications made
MatchCalls ==
    {FnCall("match", claim1, claim2, None) :
        claim1 \in HelperClaims, claim2 \in HelperClaims}

NormalizeCalls ==
    {FnCall("normalize", text, None, datatype) :
        text \in Texts, datatype \in {"quantity", "string"}}

\* the claims of one property of a working document, and the new claims
\* merged into them
StoredHelperClaims == {c \in HelperClaims : c.id = "Q1$a"}

NewHelperClaims == {c \in HelperClaims : c.id = ""}

MergeCalls ==
    {FnCall("merge_qualifiers", existing_claims, new_claim, None) :
        existing_claims \in UNION {[1..n -> StoredHelperClaims] : n \in 0..2},
        new_claim \in NewHelperClaims}

\* the claim-level step of MergeQualifiersStrategy.run on the claims of P1
MergeQualifiers ==
    /\ fn_call.op = "merge_qualifiers"
    /\ ~fn_result.done
    /\ fn_result' = Returns(MergeQualifiersClaim([p \in {"P1"} |-> fn_call.a],
                                                 "P1", fn_call.b))
    /\ UNCHANGED fn_call
    /\ UNCHANGED <<updVars, procVars, dbVars, searchVars, ctxVars, buildVars, bsVars>>

HelpersInit ==
    /\ \/ fn_call \in MatchCalls
       \/ fn_call \in NormalizeCalls
       \/ fn_call \in MergeCalls
    /\ fn_result = Pending
    /\ UpdIdle /\ pid_cache = EmptyMap
    /\ ProcIdle /\ DbIdle /\ SearchIdle /\ CtxIdle /\ BuildIdle /\ BsIdle

HelpersNext == MatchClaims \/ NormalizeUniqueValue \/ MergeQualifiers

SpecHelpers == HelpersInit /\ [][HelpersNext]_vars

\* C21: the claim-match predicate of the merge strategies (mainsnak values
\* equal and qualifiers equal) gives the same result with its two claims
\* exchanged, and the same result when the id of either claim is changed.
C21_MatchSymmetricIgnoresId ==
    (fn_call.op = "match" /\ fn_result.done) =>
        /\ fn_result.value = MergeRefsMatch(fn_call.b, fn_call.a)
        /\ \A id \in ClaimIds :
              /\ fn_result.value =
                    MergeRefsMatch([fn_call.a EXCEPT !.id = id], fn_call.b)
              /\ fn_result.value =
                    MergeRefsMatch(fn_call.a, [fn_call.b EXCEPT !.id = id])

\* two claims that differ in their ids and in the order of their qualifier
\* properties were compared and matched
C21_Witness ==
    /\ fn_call.op = "match"
    /\ fn_result.done
    /\ fn_result.value = TRUE
    /\ fn_call.a.id # fn_call.b.id
    /\ fn_call.a.qorder # <<>>
    /\ fn_call.a.qorder # fn_call.b.qorder

\* the texts that float() reads as the number that it reads text as
SameNumber(text) ==
    {other \in Texts :
        /\ ParseFloat(other).ok
        /\ ParseFloat(other) = ParseFloat(text)}

\* every textual form of the number of the text normalised is normalised to
\* the same string
SameNumberSameString ==
    ParseFloat(fn_call.a).ok =>
        \A other \in SameNumber(fn_call.a) :
            normalize_unique_text(other, "quantity") = fn_result.value

\* normalising the value returned returns it unchanged
NormalizedIsFixed ==
    \/ fn_result.value.none
    \/ normalize_unique_text(fn_result.value.text, "quantity") = fn_result.value

\* C23: for a quantity-typed unique value, _normalize_unique_value maps
\* every textual form of the same number to the same string, and normalising
\* an already normalised value returns it unchanged.
C23_NormalizeQuantity ==
    (fn_call.op = "normalize" /\ fn_result.done /\ fn_call.datatype = "quantity") =>
        /\ SameNumberSameString
        /\ NormalizedIsFixed

\* the part of C23 that the code keeps: the forms of one number are
\* normalised to one string, which is a fixed point
C23_NormalizeNumbers ==
    (/\ fn_call.op = "normalize" /\ fn_result.done
     /\ fn_call.datatype = "quantity"
     /\ ParseFloat(fn_call.a).ok) =>
        /\ SameNumberSameString
        /\ NormalizedIsFixed

\* the key set of the claim's qualifiers equals the set of entries of its
\* qualifiers-order
QualifiersAgree(claim) == DOMAIN claim.qualifiers = Range(claim.qorder)

NoRepeat(seq) == \A i, j \in DOMAIN seq : seq[i] = seq[j] => i = j

MaxCacheSize == 2

MaxBsCalls == 1

MaxLabels == 2

\* stores of three items: Q1 and Q2 may carry one label, and then no item
\* carries the label b
BsStores ==
    {[q \in {"Q1", "Q2", "Q3"} |->
        WbItem(CASE q = "Q1" -> "a" [] q = "Q2" -> l2 [] OTHER -> "c", FALSE, None)] :
        l2 \in {"a", "b"}}

\* the labels asked for
BsLabels == {"a", "b", "c"}

BsLabelLists == UNION {[1..n -> BsLabels] : n \in 0..MaxLabels}

ChunkSizes == {1, 2}

\* an entry of the cache; seq counts the entries given to the cache up to
\* and including this one
BsEntry(label, id, seq) == [label |-> label, id |-> id, seq |-> seq]

CacheLabels(cache) == {cache[i].label : i \in DOMAIN cache}

CacheId(cache, label) ==
    cache[CHOOSE i \in DOMAIN cache : cache[i].label = label].id

\* _get_from_cache(labels)
get_from_cache(cache, labels) ==
    [cached_results |->
        [l \in Range(labels) \cap CacheLabels(cache) |-> CacheId(cache, l)],
     uncached_labels |-> SelectSeq(labels, LAMBDA l : l \notin CacheLabels(cache))]

\* variant: a full cache gives up its newest entry
UpdateEntry_evictNewest(acc, size, label, id) ==
    LET full == Len(acc.cache) >= size
        kept == IF full THEN SubSeq(acc.cache, 1, Len(acc.cache) - 1) ELSE acc.cache
        present == label \in CacheLabels(kept)
    IN [acc EXCEPT
          !.cache = IF present
                    THEN [i \in DOMAIN kept |->
                            IF kept[i].label = label
                            THEN [kept[i] EXCEPT !.id = id] ELSE kept[i]]
                    ELSE Append(kept, BsEntry(label, id, acc.inserted + 1)),
          !.inserted = IF present THEN acc.inserted ELSE acc.inserted + 1,
          !.evictions = IF full
                        THEN Append(acc.evictions,
                                    [victim |-> acc.cache[Len(acc.cache)],
                                     rest |-> kept, size |-> size])
                        ELSE acc.evictions]

\* one iteration of the loop of _update_cache: if the cache is full,
\* del self.cache[next(iter(self.cache))]; then self.cache[label] = item_id,
\* which keeps the place of a label the dict holds and puts a new label last
UpdateEntry(acc, size, label, id) ==
    LET full == Len(acc.cache) >= size
        kept == IF full THEN Tail(acc.cache) ELSE acc.cache
        present == label \in CacheLabels(kept)
    IN [acc EXCEPT
          !.cache = IF present
                    THEN [i \in DOMAIN kept |->
                            IF kept[i].label = label
                            THEN [kept[i] EXCEPT !.id = id] ELSE kept[i]]
                    ELSE Append(kept, BsEntry(label, id, acc.inserted + 1)),
          !.inserted = IF present THEN acc.inserted ELSE acc.inserted + 1,
          !.evictions = IF full
                        THEN Append(acc.evictions,
                                    [victim |-> Head(acc.cache), rest |-> kept,
                                     size |-> size])
                        ELSE acc.evictions]

\* _update_cache(results): results as the (label, id) pairs of the dict
RECURSIVE update_cache(_, _, _)
update_cache(acc, size, results) ==
    IF results = <<>> THEN acc
    ELSE update_cache(UpdateEntry(acc, size, Head(results).label, Head(results).id),
                      size, Tail(results))

\* the orders in which the query can yield the texts of a set
RECURSIVE Orders(_)
Orders(S) ==
    IF S = {} THEN {<<>>}
    ELSE UNION {{<<x>> \o rest : rest \in Orders(S \ {x})} : x \in S}

\* _bulk_find_items_db(labels): the dicts label_to_id it can return, as
\* (label, id) pairs in the dict's order. nan, none and the empty text are
\* not queried; of the items that carry a text the one of the last row is
\* kept; a failed query gives {}
bulk_find_items_db(items, labels, db_ok) ==
    LET filtered_labels == SelectSeq(labels,
                              LAMBDA l : l \notin {None, "", "nan", "NaN", "none"})
        found == {l \in Range(filtered_labels) :
                     \E q \in DOMAIN items : items[q].label = l}
    IN IF filtered_labels = <<>> \/ ~db_ok THEN {<<>>}
       ELSE {[i \in DOMAIN order |-> [label |-> order[i], id |-> pick[order[i]]]] :
                order \in Orders(found),
                pick \in {f \in [found -> DOMAIN items] :
                             \A l \in found : items[f[l]].label = l}}

\* all_results.update(results)
UpdateResults(all_results, results) ==
    [l \in (DOMAIN all_results) \cup {results[i].label : i \in DOMAIN results} |->
        IF \E i \in DOMAIN results : results[i].label = l
        THEN results[CHOOSE i \in DOMAIN results : results[i].label = l].id
        ELSE all_results[l]]

\* the loop over the chunks of the uncached labels: the outcomes it can have
RECURSIVE ChunkLoop(_, _, _, _, _, _, _)
ChunkLoop(acc, size, items, labels, use_cache, chunk_size, db_ok) ==
    IF labels = <<>> THEN {acc}
    ELSE LET n == IF Len(labels) < chunk_size THEN Len(labels) ELSE chunk_size
             chunk == SubSeq(labels, 1, n)
             rest == SubSeq(labels, n + 1, Len(labels))
         IN UNION
              { ChunkLoop(
                  [(IF use_cache THEN update_cache(acc, size, chunk_results) ELSE acc)
                     EXCEPT !.all_results = UpdateResults(acc.all_results, chunk_results),
                            !.queried = Append(acc.queried, chunk)],
                  size, items, rest, use_cache, chunk_size, db_ok) :
                chunk_results \in bulk_find_items_db(items, chunk, db_ok) }

\* ItemBulkSearcher.find_items_by_labels_optimized(labels, use_cache,
\* chunk_size) on a searcher with the given cache: the outcomes it can have
CachedFind(cache, inserted, size, items, labels, use_cache, chunk_size, db_ok) ==
    LET got == get_from_cache(cache, labels)
        acc == [cache |-> cache, inserted |-> inserted, evictions |-> <<>>,
                all_results |-> IF use_cache THEN got.cached_results ELSE EmptyMap,
                queried |-> <<>>]
    IN IF labels = <<>> THEN {acc}
       ELSE ChunkLoop(acc, size, items,
                      IF use_cache THEN got.uncached_labels ELSE labels,
                      use_cache, chunk_size, db_ok)

\* a call of find_items_by_labels_optimized
FindItemsByLabelsOptimized ==
    /\ bs_calls < MaxBsCalls
    /\ \E labels \in BsLabelLists, use_cache \in BOOLEAN, chunk_size \in ChunkSizes,
          db_ok \in BOOLEAN :
          \E out \in CachedFind(bs_cache, bs_inserted, bs_cache_size, wb_items,
                                labels, use_cache, chunk_size, db_ok) :
             /\ bs_cache' = out.cache
             /\ bs_inserted' = out.inserted
             /\ bs_call' = [labels |-> labels, use_cache |-> use_cache,
                            chunk_size |-> chunk_size, db_ok |-> db_ok]
             /\ bs_result' = [result |-> out.all_results, queried |-> out.queried,
                              before |-> bs_cache, evictions |-> out.evictions]
    /\ bs_calls' = bs_calls + 1
    /\ UNCHANGED bs_cache_size
    /\ UNCHANGED <<updVars, procVars, dbVars, searchVars, ctxVars, buildVars, fnVars>>

\* clear_cache()
ClearCache ==
    /\ bs_calls < MaxBsCalls
    /\ bs_cache # <<>>
    /\ bs_cache' = <<>>
    /\ bs_call' = NoBsCall
    /\ bs_result' = NoBsResult
    /\ bs_calls' = bs_calls + 1
    /\ UNCHANGED <<bs_inserted, bs_cache_size>>
    /\ UNCHANGED <<updVars, procVars, dbVars, searchVars, ctxVars, buildVars, fnVars>>

\* the caches earlier calls can have left on a searcher with the given
\* cache_size: at most cache_size labels, none twice, each with the id of an
\* item that carries it, in the order in which they were inserted
BsCaches(items, size) ==
    UNION {{[i \in DOMAIN order |-> BsEntry(order[i], pick[order[i]], i)] :
               order \in Orders(L),
               pick \in {f \in [L -> DOMAIN items] :
                            \A l \in L : items[f[l]].label = l}} :
           L \in {K \in SUBSET {items[q].label : q \in DOMAIN items} :
                     Cardinality(K) <= size}}

\* ItemBulkSearcher(cache_size) over a store, new or after earlier calls
BsInit ==
    /\ wb_items \in BsStores
    /\ bs_cache_size \in 1..MaxCacheSize
    /\ bs_cache \in BsCaches(wb_items, bs_cache_size)
    /\ bs_inserted = Len(bs_cache)
    /\ bs_call = NoBsCall
    /\ bs_result = NoBsResult
    /\ bs_calls = 0
    /\ UpdIdle /\ pid_cache = EmptyMap
    /\ ProcIdle /\ SearchIdle /\ CtxIdle /\ BuildIdle /\ FnIdle

BsNext == FindItemsByLabelsOptimized \/ ClearCache

SpecBulkSearch == BsInit /\ [][BsNext]_vars

\* the labels of the last call that its cache held before the call
ServedFromCache ==
    IF bs_call.use_cache THEN Range(bs_call.labels) \cap CacheLabels(bs_result.before)
    ELSE {}

\* C30: with cache_size >= 1 the label cache holds at most cache_size
\* entries after any sequence of find_items_by_labels_optimized calls; an
\* entry is evicted only by an insertion that finds the cache full, and it is
\* the entry that was inserted earliest; a label served from the cache is
\* returned with the id stored for it, and no query asks the store for it.
C30_CacheBoundedFifo ==
    /\ Len(bs_cache) <= bs_cache_size
    /\ \A i, j \in DOMAIN bs_cache :
          /\ bs_cache[i].label = bs_cache[j].label => i = j
          /\ i < j => bs_cache[i].seq < bs_cache[j].seq
    /\ \A i \in DOMAIN bs_cache :
          /\ bs_cache[i].id \in DOMAIN wb_items
          /\ wb_items[bs_cache[i].id].label = bs_cache[i].label
    /\ \A e \in DOMAIN bs_result.evictions :
          LET ev == bs_result.evictions[e]
          IN /\ Len(ev.rest) + 1 >= ev.size
             /\ \A r \in DOMAIN ev.rest : ev.victim.seq < ev.rest[r].seq
    /\ \A l \in ServedFromCache :
          /\ l \in DOMAIN bs_result.result
          /\ bs_result.result[l] = CacheId(bs_result.before, l)
          /\ \A c \in DOMAIN bs_result.queried : l \notin Range(bs_result.queried[c])

\* a call served one label from a full cache of two entries and evicted the
\* older entry for a label it had to query
C30_Witness ==
    /\ ServedFromCache # {}
    /\ Len(bs_result.before) = bs_cache_size
    /\ bs_cache_size >= 2
    /\ \E e \in DOMAIN bs_result.evictions : bs_result.evictions[e].rest # <<>>
    /\ bs_result.queried # <<>>

====
